---- MODULE Spec2Model ----
(***************************************************************************)
(* A model of aeromessage's core library (oxidized/src): the timestamp     *)
(* normalizer (lib.rs), the attributedBody decoder and the message loader  *)
(* (db.rs), the message model (models.rs) and the contact resolver         *)
(* (contacts.rs).                                                          *)
(*                                                                         *)
(* Conventions.  Option<T> is a sequence of length at most one: None is    *)
(* <<>> and Some(v) is <<v>>.  A String is the sequence of its UTF-8       *)
(* bytes, a Vec<u8> is the sequence of its bytes (0..255).  An i64 is a    *)
(* sign and a magnitude of three base-10^9 limbs (TLC's integers are 32    *)
(* bits wide, an i64 does not fit in one).                                 *)
(***************************************************************************)
EXTENDS Integers, Sequences, FiniteSets, TLC

VARIABLES
    apple_ts,       \* lib.rs: the i64 handed to apple_to_unix
    unix_ts,        \* lib.rs: Option of apple_to_unix(apple_ts)
    nanos_ts,       \* lib.rs: Option of apple_to_unix(apple_ts * 10^9)
    blob,           \* db.rs: the attributedBody bytes handed to the decoder
    decoded,        \* db.rs: Option of parse_attributed_body(blob)
    panicked,       \* db.rs: whether parse_attributed_body(blob) panicked
    cache,          \* contacts.rs: ContactResolver.cache, identifier -> name
    call,           \* contacts.rs: the last call on the resolver and its result
    message_rows,   \* db.rs: the chat's rows of the store's message table
    annotation_rows,\* db.rs: the store's rows with an associated_message_guid
    faults,         \* db.rs: the queries that the store fails
    conv_messages,  \* db.rs: Option of conv.messages after load_messages
    returned,       \* db.rs: Option of what load_messages returned
    reactions,      \* models.rs: the reactions of the Message handed to reaction_summary
    summary,        \* models.rs: Option of reaction_summary()
    pc,             \* main.rs: where each invoked command stands
    held,           \* main.rs: for each Mutex of AppState, Option of the command holding it
    todo,           \* main.rs: what each command's loop has yet to visit
    resolved,       \* main.rs: what each get_conversations has got from contacts.resolve
    path_state,     \* db.rs: what the file system and SQLite make of the path handed to open
    chats,          \* db.rs: the chats with unread messages, each with its message rows
    opened,         \* db.rs: Option of what Database::open returned
    conversations,  \* db.rs: Option of what unread_conversations returned
    app_state,      \* main.rs: AppState's drafts, committed, later and ignored
    events,         \* main.rs: what the last send_all read, drained and called
    frame           \* main.rs: each command's arguments and the locks it has yet to take

vars == <<apple_ts, unix_ts, nanos_ts, blob, decoded, panicked, cache, call,
          message_rows, annotation_rows, faults, conv_messages, returned,
          reactions, summary,
          pc, held, todo, resolved,
          path_state, chats, opened, conversations,
          app_state, events, frame>>

tsVars == <<apple_ts, unix_ts, nanos_ts>>
decVars == <<blob, decoded, panicked>>
conVars == <<cache, call>>
dbVars == <<message_rows, annotation_rows, faults, conv_messages, returned>>
sumVars == <<reactions, summary>>
cmdVars == <<pc, held, todo, resolved>>
storeVars == <<path_state, chats, opened, conversations>>
appVars == <<app_state, events, frame>>

None == <<>>
Some(v) == <<v>>

\* Result<T, DbError>: Ok(value) or Err(error), the error one of db.rs:12-19
Ok(v) == [ok |-> TRUE, value |-> v, error |-> ""]
Err(e) == [ok |-> FALSE, value |-> <<>>, error |-> e]

(***************************************************************************)
(* i64 arithmetic on limbs                                                 *)
(***************************************************************************)

\* lib.rs:22, the nanoseconds in a second; also the base of the limbs.
NANOS_PER_SEC == 1000000000

\* lib.rs:16
APPLE_EPOCH_OFFSET == 978307200

\* The i64 (-1)^neg * (hi * 10^18 + mid * 10^9 + lo); zero is never negative.
Wide(neg, hi, mid, lo) ==
    [neg |-> neg /\ (hi # 0 \/ mid # 0 \/ lo # 0), hi |-> hi, mid |-> mid, lo |-> lo]

WOfNat(n) == Wide(FALSE, 0, n \div NANOS_PER_SEC, n % NANOS_PER_SEC)

MagLess(x, y) ==
    \/ x.hi < y.hi
    \/ x.hi = y.hi /\ x.mid < y.mid
    \/ x.hi = y.hi /\ x.mid = y.mid /\ x.lo < y.lo

\* x < y on i64
WLess(x, y) ==
    IF x.neg # y.neg THEN x.neg
    ELSE IF x.neg THEN MagLess(y, x) ELSE MagLess(x, y)

WLeq(x, y) == x = y \/ WLess(x, y)

WNeg(x) == Wide(~x.neg, x.hi, x.mid, x.lo)

MagAdd(neg, x, y) ==
    LET lo  == x.lo + y.lo
        mid == x.mid + y.mid + (lo \div NANOS_PER_SEC)
        hi  == x.hi + y.hi + (mid \div NANOS_PER_SEC)
    IN  Wide(neg, hi, mid % NANOS_PER_SEC, lo % NANOS_PER_SEC)

\* |x| - |y| for |y| <= |x|
MagSub(neg, x, y) ==
    LET lo  == x.lo - y.lo
        bl  == IF lo < 0 THEN 1 ELSE 0
        mid == x.mid - y.mid - bl
        bm  == IF mid < 0 THEN 1 ELSE 0
    IN  Wide(neg, x.hi - y.hi - bm, mid + bm * NANOS_PER_SEC, lo + bl * NANOS_PER_SEC)

\* x + y on the integers (the callers below never leave the i64 range)
WAdd(x, y) ==
    IF x.neg = y.neg THEN MagAdd(x.neg, x, y)
    ELSE IF MagLess(x, y) THEN MagSub(y.neg, y, x)
    ELSE MagSub(x.neg, x, y)

WSub(x, y) == WAdd(x, WNeg(y))

\* x / 1_000_000_000 as Rust divides i64: the quotient truncated toward zero
WDivNanos(x) == Wide(x.neg, 0, x.hi, x.mid)

\* x * 1_000_000_000 for |x| < 10^18
WMulNanos(x) == Wide(x.neg, x.mid, x.lo, 0)

I64_MAX == Wide(FALSE, 9, 223372036, 854775807)
I64_MIN == Wide(TRUE, 9, 223372036, 854775808)
InI64(x) == WLeq(I64_MIN, x) /\ WLeq(x, I64_MAX)

\* lib.rs:21, the literal 1_000_000_000_000
NS_THRESHOLD == Wide(FALSE, 0, 1000, 0)

(***************************************************************************)
(* lib.rs: apple_to_unix                                                   *)
(***************************************************************************)

\* A slip the claims must notice: the nanosecond encoding is never scaled.
apple_to_unix_unscaled(ts) == WAdd(ts, WOfNat(APPLE_EPOCH_OFFSET))

\* A slip the claims must notice: the division is applied by magnitude, to
\* large negative values too.
apple_to_unix_by_magnitude(ts) ==
    LET mag == Wide(FALSE, ts.hi, ts.mid, ts.lo)
        t   == IF WLess(NS_THRESHOLD, mag) THEN WDivNanos(ts) ELSE ts
    IN  WAdd(t, WOfNat(APPLE_EPOCH_OFFSET))

\* A slip the claims must notice: the offset is applied in the wrong direction.
apple_to_unix_backwards(ts) ==
    LET t == IF WLess(NS_THRESHOLD, ts) THEN WDivNanos(ts) ELSE ts
    IN  WSub(t, WOfNat(APPLE_EPOCH_OFFSET))

ScaleToSeconds(apple) ==
    IF WLess(NS_THRESHOLD, apple) THEN WDivNanos(apple) ELSE apple

apple_to_unix(apple) ==
    LET ts == ScaleToSeconds(apple)
    IN  WAdd(ts, WOfNat(APPLE_EPOCH_OFFSET))

(***************************************************************************)
(* Timestamps: the inputs                                                  *)
(***************************************************************************)

\* How far around each boundary value the limbs of the inputs are drawn.
TsSpread == 1

TsLoLimbs ==
    (0 .. TsSpread) \cup ((NANOS_PER_SEC - TsSpread) .. (NANOS_PER_SEC - 1))
    \cup {725846400, 223372036, 223372037, 854775807, 854775808}

TsMidLimbs ==
    (0 .. TsSpread) \cup ((1000 - TsSpread) .. (1000 + TsSpread))
    \cup {9, 725846400, 223372036}

TsHiLimbs == {0, 1, 9}

TsInputs ==
    { w \in { Wide(n, h, m, l) : n \in BOOLEAN, h \in TsHiLimbs,
                                 m \in TsMidLimbs, l \in TsLoLimbs } : InI64(w) }

\* apple_ts is a whole number of seconds whose nanosecond encoding is an i64
HasNanosTwin(s) == s.hi = 0 /\ InI64(WMulNanos(s))

\* The part of the state a specification does not use stays as it is here.
IdleTs == apple_ts = WOfNat(0) /\ unix_ts = None /\ nanos_ts = None
IdleDec == blob = <<>> /\ decoded = None /\ panicked = FALSE
IdleCon ==
    /\ cache = <<>>
    /\ call = [op |-> "new", identifier |-> <<>>, name |-> <<>>, ret |-> None]
IdleDb ==
    /\ message_rows = <<>>
    /\ annotation_rows = <<>>
    /\ faults = {}
    /\ conv_messages = None
    /\ returned = None
IdleSum ==
    /\ reactions = <<>>
    /\ summary = None
IdleCmd ==
    /\ pc = <<>>
    /\ held = <<>>
    /\ todo = <<>>
    /\ resolved = <<>>
IdleStore ==
    /\ path_state = <<>>
    /\ chats = <<>>
    /\ opened = None
    /\ conversations = None
IdleApp ==
    /\ app_state = <<>>
    /\ events = <<>>
    /\ frame = <<>>

InitTs ==
    /\ apple_ts \in TsInputs
    /\ unix_ts = None
    /\ nanos_ts = None
    /\ IdleDec
    /\ IdleCon
    /\ IdleDb
    /\ IdleSum
    /\ IdleCmd
    /\ IdleStore
    /\ IdleApp

\* a caller normalizes the stored value (db.rs:79, db.rs:174)
Normalize ==
    /\ unix_ts = None
    /\ unix_ts' = Some(apple_to_unix(apple_ts))
    /\ UNCHANGED <<apple_ts, nanos_ts, decVars, conVars, dbVars, sumVars,
                   cmdVars, storeVars, appVars>>

\* the same instant, stored in nanoseconds, is normalized (lib.rs:43-47)
NormalizeNanos ==
    /\ nanos_ts = None
    /\ HasNanosTwin(apple_ts)
    /\ nanos_ts' = Some(apple_to_unix(WMulNanos(apple_ts)))
    /\ UNCHANGED <<apple_ts, unix_ts, decVars, conVars, dbVars, sumVars,
                   cmdVars, storeVars, appVars>>

NextTs == Normalize \/ NormalizeNanos

SpecTs == InitTs /\ [][NextTs]_vars

(***************************************************************************)
(* db.rs: parse_attributed_body                                            *)
(***************************************************************************)

\* db.rs:336, b"NSString"
MARKER == <<78, 83, 83, 116, 114, 105, 110, 103>>

\* db.rs:345, the bytes skipped after the marker
GAP == 5

\* db.rs:351, the length byte that announces a two-byte length
LONG_LENGTH == 129

\* &s[n..] and &s[a..b], on 0-based offsets
SkipBytes(s, n) == SubSeq(s, n + 1, Len(s))
Slice(s, a, b) == SubSeq(s, a + 1, b)

Least(S) == CHOOSE x \in S : \A y \in S : x <= y

\* blob.windows(marker.len()).position(|w| w == marker)
MarkerPosition(bytes) ==
    LET hits == { p \in 0 .. (Len(bytes) - Len(MARKER)) :
                    Slice(bytes, p, p + Len(MARKER)) = MARKER }
    IN  IF hits = {} THEN None ELSE Some(Least(hits))

IsContinuation(b) == b \in 128 .. 191

\* core::str::from_utf8's validation: well-formed UTF-8, no overlong forms,
\* no surrogates, nothing above U+10FFFF.
RECURSIVE ValidUtf8(_)
ValidUtf8(b) ==
    IF b = <<>> THEN TRUE
    ELSE LET c == b[1]
             n == Len(b)
         IN  CASE c <= 127 -> ValidUtf8(Tail(b))
               [] c \in 194 .. 223 ->
                    /\ n >= 2
                    /\ IsContinuation(b[2])
                    /\ ValidUtf8(SkipBytes(b, 2))
               [] c \in 224 .. 239 ->
                    /\ n >= 3
                    /\ b[2] \in (CASE c = 224 -> 160 .. 191
                                   [] c = 237 -> 128 .. 159
                                   [] OTHER -> 128 .. 191)
                    /\ IsContinuation(b[3])
                    /\ ValidUtf8(SkipBytes(b, 3))
               [] c \in 240 .. 244 ->
                    /\ n >= 4
                    /\ b[2] \in (CASE c = 240 -> 144 .. 191
                                   [] c = 244 -> 128 .. 143
                                   [] OTHER -> 128 .. 191)
                    /\ IsContinuation(b[3])
                    /\ IsContinuation(b[4])
                    /\ ValidUtf8(SkipBytes(b, 4))
               [] OTHER -> FALSE

\* String::from_utf8(bytes).ok()
from_utf8(bytes) == IF ValidUtf8(bytes) THEN Some(bytes) ELSE None

\* A slip the claims must notice: the 0x81 sentinel is not recognized and
\* every length is read as one byte.
parse_attributed_body_short_only(bytes) ==
    LET pos == MarkerPosition(bytes)
    IN  IF pos = None THEN None
        ELSE LET after == SkipBytes(bytes, pos[1] + Len(MARKER))
             IN  IF Len(after) < GAP + 1 THEN None
                 ELSE LET data == SkipBytes(after, GAP)
                      IN  IF 1 + data[1] > Len(data) THEN None
                          ELSE from_utf8(Slice(data, 1, 1 + data[1]))

\* A slip the claims must notice: a declared length that overruns the buffer
\* is clamped to the bytes that are there.
parse_attributed_body_clamped(bytes) ==
    LET pos == MarkerPosition(bytes)
    IN  IF pos = None THEN None
        ELSE LET after == SkipBytes(bytes, pos[1] + Len(MARKER))
             IN  IF Len(after) < GAP + 1 THEN None
                 ELSE LET data   == SkipBytes(after, GAP)
                          long   == data[1] = LONG_LENGTH /\ Len(data) >= 3
                          length == IF long THEN data[2] + 256 * data[3] ELSE data[1]
                          start  == IF long THEN 3 ELSE 1
                          stop   == IF start + length > Len(data)
                                        THEN Len(data) ELSE start + length
                      IN  from_utf8(Slice(data, start, stop))

parse_attributed_body(bytes) ==
    LET pos == MarkerPosition(bytes)
    IN  IF pos = None THEN None
        ELSE LET after == SkipBytes(bytes, pos[1] + Len(MARKER))
             IN  IF Len(after) < 6 THEN None
                 ELSE LET data == SkipBytes(after, GAP)
                      IN  IF data = <<>> THEN None
                          ELSE LET long   == data[1] = LONG_LENGTH /\ Len(data) >= 3
                                   \* u16::from_le_bytes([data[1], data[2]])
                                   length == IF long THEN data[2] + 256 * data[3]
                                                     ELSE data[1]
                                   start  == IF long THEN 3 ELSE 1
                               IN  IF start + length > Len(data) THEN None
                                   ELSE from_utf8(Slice(data, start, start + length))

\* The largest sum the decoder's usize arithmetic is allowed here: no more
\* than usize::MAX where usize has 32 or 64 bits.
USIZE_LIMIT == 2147483647

\* One slice or index operation: the length of the sequence it is made on
\* and the 0-based range [from, to) it takes.
Access(len, from, to) == [len |-> len, from |-> from, to |-> to]

\* A slip the claims must notice: the decoder without its test of
\* after.len() < 6 (db.rs:340-342).
Accesses_without_gap_test(bytes) ==
    LET pos == MarkerPosition(bytes)
    IN  IF pos = None THEN <<>>
        ELSE LET at    == pos[1] + Len(MARKER)
                 after == SkipBytes(bytes, at)
             IN  << Access(Len(bytes), at, Len(bytes)),
                    Access(Len(after), GAP, Len(after)) >>

\* The slice and index operations parse_attributed_body makes on a blob, in
\* the order it makes them: &blob[pos + 8..] (db.rs:338), &after[5..]
\* (db.rs:345), data[0] (db.rs:351, 355), data[1] and data[2] (db.rs:352),
\* data[start..start + length] (db.rs:362).
Accesses(bytes) ==
    LET pos == MarkerPosition(bytes)
    IN  IF pos = None THEN <<>>
        ELSE LET at    == pos[1] + Len(MARKER)
                 after == SkipBytes(bytes, at)
                 first == << Access(Len(bytes), at, Len(bytes)) >>
             IN  IF Len(after) < 6 THEN first
                 ELSE LET data   == SkipBytes(after, GAP)
                          second == Append(first, Access(Len(after), GAP, Len(after)))
                      IN  IF data = <<>> THEN second
                          ELSE LET third  == Append(second, Access(Len(data), 0, 1))
                                   long   == data[1] = LONG_LENGTH /\ Len(data) >= 3
                                   fourth == IF long
                                             THEN third \o << Access(Len(data), 1, 2),
                                                              Access(Len(data), 2, 3) >>
                                             ELSE third
                                   length == IF long THEN data[2] + 256 * data[3]
                                                     ELSE data[1]
                                   start  == IF long THEN 3 ELSE 1
                               IN  IF start + length > Len(data) THEN fourth
                                   ELSE Append(fourth,
                                               Access(Len(data), start, start + length))

\* a slice or index panics when its range is not within the sequence, an
\* addition when it overflows
InBounds(a) == a.from <= a.to /\ a.to <= a.len /\ a.to <= USIZE_LIMIT

Panics(bytes) ==
    \E i \in 1 .. Len(Accesses(bytes)) : ~InBounds(Accesses(bytes)[i])

(***************************************************************************)
(* The decoder: the inputs                                                 *)
(***************************************************************************)

\* The longest run of bytes drawn after the gap.
MaxRest == 5

\* Length bytes 0, 1 and 2 (ASCII as payload), the 0x81 sentinel (a
\* continuation byte as payload) and 0xC3, the lead byte of a two-byte
\* character.
DecAlphabet == {0, 1, 2, 129, 195}

RECURSIVE SeqsUpTo(_, _)
SeqsUpTo(S, n) ==
    IF n = 0 THEN { <<>> }
    ELSE LET shorter == SeqsUpTo(S, n - 1)
         IN  shorter \cup { Append(q, x) : q \in shorter, x \in S }

Zeros(n) == [i \in 1 .. n |-> 0]

\* What precedes the marker: nothing, a byte, a marker cut short, or an
\* earlier complete marker with two bytes after it.
BlobPrefixes == { <<>>, <<78>>, SubSeq(MARKER, 1, 7), MARKER \o <<0, 0>> }

\* What follows the marker: a gap cut short, or the gap and up to MaxRest bytes.
BlobTails ==
    { Zeros(k) : k \in 0 .. (GAP - 1) }
    \cup { Zeros(GAP) \o r : r \in SeqsUpTo(DecAlphabet, MaxRest) }

Ones(n) == [i \in 1 .. n |-> 1]

\* The blobs of db.rs's tests (db.rs:370-423), and a one-byte length above 127.
TestBlobs ==
    { <<112, 114, 101, 102, 105, 120>> \o MARKER \o Zeros(GAP)
          \o <<5, 72, 101, 108, 108, 111>>,
      <<>>,
      <<110, 111, 32, 109, 97, 114, 107, 101, 114, 32, 104, 101, 114, 101>>,
      MARKER \o Zeros(GAP) \o <<129, 10, 0>>
          \o <<48, 49, 50, 51, 52, 53, 54, 55, 56, 57>>,
      MARKER \o <<49, 50, 51, 52, 53>>,
      MARKER \o Zeros(GAP) \o <<100, 115, 104, 111, 114, 116>>,
      MARKER \o Zeros(GAP) \o <<130>> \o Ones(130) }

\* The largest two-byte length, 65535, with no payload and with one byte of
\* it; and the sentinel with the two bytes of a length 0.
EdgeBlobs ==
    { MARKER \o Zeros(GAP) \o <<129, 255, 255>>,
      MARKER \o Zeros(GAP) \o <<129, 255, 255, 1>>,
      MARKER \o Zeros(GAP) \o <<129, 0, 0>> }

BlobInputs ==
    { pre \o mk \o tl : pre \in BlobPrefixes, mk \in { <<>>, MARKER }, tl \in BlobTails }
    \cup TestBlobs
    \cup EdgeBlobs

InitDec ==
    /\ blob \in BlobInputs
    /\ decoded = None
    /\ panicked = FALSE
    /\ IdleTs
    /\ IdleCon
    /\ IdleDb
    /\ IdleSum
    /\ IdleCmd
    /\ IdleStore
    /\ IdleApp

\* load_messages decodes a row's attributedBody (db.rs:171)
ParseBody ==
    /\ decoded = None
    /\ ~panicked
    /\ panicked' = Panics(blob)
    /\ decoded' = IF Panics(blob) THEN decoded ELSE Some(parse_attributed_body(blob))
    /\ UNCHANGED <<blob, tsVars, conVars, dbVars, sumVars, cmdVars,
                   storeVars, appVars>>

NextDec == ParseBody

SpecDec == InitDec /\ [][NextDec]_vars

(***************************************************************************)
(* The decoder: the claims                                                 *)
(***************************************************************************)

Parsed == decoded # None

\* p is the 0-based offset of the first occurrence of the marker in the blob
FirstMarkerAt(p) ==
    /\ p \in 0 .. (Len(blob) - Len(MARKER))
    /\ \A i \in 1 .. Len(MARKER) : blob[p + i] = MARKER[i]
    /\ \A q \in 0 .. (p - 1) : \E i \in 1 .. Len(MARKER) : blob[q + i] # MARKER[i]

HasMarker == \E p \in 0 .. Len(blob) : FirstMarkerAt(p)

\* The 0-based offset of the length byte: after the marker and the 5-byte gap.
LengthOffset(p) == p + Len(MARKER) + 5

\* The declared payload, as 0-based offsets [from, to) into the blob.
TwoByteLength(p) ==
    /\ blob[LengthOffset(p) + 1] = 129
    /\ Len(blob) >= LengthOffset(p) + 3
DeclaredFrom(p) == IF TwoByteLength(p) THEN LengthOffset(p) + 3 ELSE LengthOffset(p) + 1
DeclaredLength(p) ==
    IF TwoByteLength(p)
    THEN blob[LengthOffset(p) + 2] + 256 * blob[LengthOffset(p) + 3]
    ELSE blob[LengthOffset(p) + 1]

\* C6: when the first marker is followed by a 5-byte gap and a length byte,
\* a length byte of 0x81 makes the next two bytes the little-endian length and
\* the payload start 3 bytes after the gap, any other length byte is the
\* length itself and the payload starts 1 byte after the gap; when the
\* declared range lies in the buffer and is valid UTF-8 the decoder returns
\* exactly those bytes.
C6_DeclaredPayloadIsReturned ==
    Parsed =>
        \A p \in 0 .. Len(blob) :
            (/\ FirstMarkerAt(p)
             /\ Len(blob) > LengthOffset(p)
             /\ blob[LengthOffset(p) + 1] = 129 => Len(blob) >= LengthOffset(p) + 3
             /\ DeclaredFrom(p) + DeclaredLength(p) <= Len(blob)
             /\ ValidUtf8(SubSeq(blob, DeclaredFrom(p) + 1,
                                 DeclaredFrom(p) + DeclaredLength(p))))
            => decoded[1] = Some(SubSeq(blob, DeclaredFrom(p) + 1,
                                        DeclaredFrom(p) + DeclaredLength(p)))

C6_Witness ==
    /\ blob = <<78>> \o MARKER \o Zeros(5) \o <<129, 2, 0, 195, 129>>
    /\ decoded = Some(Some(<<195, 129>>))

\* C7: a blob with no marker, or truncated before the length byte, or whose
\* declared payload length exceeds the bytes that remain after the length
\* field, decodes to None.
C7_AbsentWhenNoMarkerOrTooShort ==
    Parsed =>
        ((\/ ~HasMarker
          \/ \E p \in 0 .. Len(blob) :
                /\ FirstMarkerAt(p)
                /\ \/ Len(blob) <= LengthOffset(p)
                   \/ DeclaredLength(p) > Len(blob) - DeclaredFrom(p))
         => decoded[1] = None)

C7_Witness ==
    /\ blob = MARKER \o Zeros(5) \o <<129, 0, 1, 1, 1>>
    /\ decoded = Some(None)

\* C20: on every blob (empty, a marker at the very end, a 0x81 sentinel with
\* fewer than two bytes after it, a declared length up to 65535) the decoder
\* makes no slice or index out of bounds and no addition that overflows, and
\* ends with a string of valid UTF-8 or with None.
C20_DecoderNeverPanics ==
    /\ ~panicked
    /\ \A i \in 1 .. Len(Accesses(blob)) :
          /\ Accesses(blob)[i].from <= Accesses(blob)[i].to
          /\ Accesses(blob)[i].to <= Accesses(blob)[i].len
    /\ Parsed => \/ decoded[1] = None
                 \/ /\ Len(decoded[1]) = 1
                    /\ ValidUtf8(decoded[1][1])
                    /\ Len(decoded[1][1]) <= 65535

\* the decoder has returned None on the sentinel with one byte after it, in
\* a blob that begins with an earlier marker
C20_Witness ==
    /\ Parsed
    /\ decoded[1] = None
    /\ blob = MARKER \o <<0, 0>> \o MARKER \o Zeros(5) \o <<129, 1>>

(***************************************************************************)
(* contacts.rs: ContactResolver                                            *)
(***************************************************************************)

PLUS == 43

\* char::is_ascii_digit
IsAsciiDigit(c) == c \in 48 .. 57

\* s.starts_with(prefix)
StartsWith(s, prefix) ==
    Len(s) >= Len(prefix) /\ SubSeq(s, 1, Len(prefix)) = prefix

\* contacts.rs:157-159
normalize_phone(phone) ==
    SelectSeq(phone, LAMBDA c : IsAsciiDigit(c) \/ c = PLUS)

\* ContactResolver::new
NewCache == <<>>

\* HashMap::get
CacheGet(c, key) == IF key \in DOMAIN c THEN Some(c[key]) ELSE None

\* A slip the claims must notice: an insert evicts every other entry.
CacheInsertEvicting(c, key, value) == [k \in {key} |-> value]

\* HashMap::insert
CacheInsert(c, key, value) ==
    [k \in DOMAIN c \cup {key} |-> IF k = key THEN value ELSE c[k]]

\* A slip the claims must notice: the normalized form is tried before the
\* raw identifier.
resolve_normalized_first(c, identifier) ==
    LET normalized == normalize_phone(identifier)
    IN  IF CacheGet(c, normalized) # None THEN CacheGet(c, normalized)
        ELSE IF CacheGet(c, identifier) # None THEN CacheGet(c, identifier)
        ELSE IF StartsWith(normalized, <<PLUS, 49>>)
            THEN CacheGet(c, SkipBytes(normalized, 2))
            ELSE None

\* contacts.rs:16-36
resolve(c, identifier) ==
    IF CacheGet(c, identifier) # None THEN CacheGet(c, identifier)
    ELSE LET normalized == normalize_phone(identifier)
         IN  IF CacheGet(c, normalized) # None THEN CacheGet(c, normalized)
             ELSE IF StartsWith(normalized, <<PLUS, 49>>)
                 THEN CacheGet(c, SkipBytes(normalized, 2))
                 ELSE None

\* A slip the claims must notice: only the identifier is tested for emptiness.
add_unchecked_name(c, identifier, name) ==
    IF identifier # <<>> THEN CacheInsert(c, identifier, name) ELSE c

\* contacts.rs:39-43
add(c, identifier, name) ==
    IF identifier # <<>> /\ name # <<>>
    THEN CacheInsert(c, identifier, name)
    ELSE c

(***************************************************************************)
(* The resolver: the inputs                                                *)
(***************************************************************************)

\* The most entries the cache is grown to.
MaxEntries == 2

\* '+', '-', '1', '5'
MINUS == 45
ONE == 49
FIVE == 53

\* The identifiers stored and looked up: an optional country-code part
\* ("", "+", "1", "+1"), an optional separator ("-") and an optional
\* subscriber part ("5"), so that an identifier, its normalized form and its
\* form without "+1" are all among them.
Identifiers ==
    { pre \o sep \o body :
        pre \in { <<>>, <<PLUS>>, <<ONE>>, <<PLUS, ONE>> },
        sep \in { <<>>, <<MINUS>> },
        body \in { <<>>, <<FIVE>> } }

AddIdentifiers == Identifiers
ResolveIdentifiers == Identifiers

\* "", "A", "B"
Names == { <<>>, <<65>>, <<66>> }

InitCon ==
    /\ cache = NewCache
    /\ call = [op |-> "new", identifier |-> <<>>, name |-> <<>>, ret |-> None]
    /\ IdleTs
    /\ IdleDec
    /\ IdleDb
    /\ IdleSum
    /\ IdleCmd
    /\ IdleStore
    /\ IdleApp

\* resolver.add(identifier, name); ret is what HashMap::insert returned, which
\* add drops: the value the key held before.
Add(identifier, name) ==
    /\ identifier \in DOMAIN cache \/ Cardinality(DOMAIN cache) < MaxEntries
    /\ cache' = add(cache, identifier, name)
    /\ call' = [op |-> "add", identifier |-> identifier, name |-> name,
                ret |-> CacheGet(cache, identifier)]
    /\ UNCHANGED <<tsVars, decVars, dbVars, sumVars, cmdVars, storeVars,
                   appVars>>

\* resolver.resolve(identifier)
Resolve(identifier) ==
    /\ call' = [op |-> "resolve", identifier |-> identifier, name |-> <<>>,
                ret |-> resolve(cache, identifier)]
    /\ UNCHANGED <<cache, tsVars, decVars, dbVars, sumVars, cmdVars,
                   storeVars, appVars>>

NextCon ==
    \/ \E identifier \in AddIdentifiers, name \in Names : Add(identifier, name)
    \/ \E identifier \in ResolveIdentifiers : Resolve(identifier)

SpecCon == InitCon /\ [][NextCon]_vars

(***************************************************************************)
(* The resolver: the claims                                                *)
(***************************************************************************)

\* The identifier with only its ASCII digits and '+' kept, in order.
RECURSIVE DigitsAndPlus(_)
DigitsAndPlus(s) ==
    IF s = <<>> THEN <<>>
    ELSE IF s[1] \in {43} \cup (48 .. 57)
        THEN <<s[1]>> \o DigitsAndPlus(Tail(s))
        ELSE DigitsAndPlus(Tail(s))

HasKey(k) == k \in DOMAIN cache

\* C8: resolve(x) returns the value stored under x if x is a key; else the
\* value under normalize(x) if that is a key; else, if normalize(x) starts
\* with "+1", the value under normalize(x) without that prefix if that is a
\* key; and None otherwise.
C8_ResolveLookupOrder ==
    call.op = "resolve" =>
        LET x == call.identifier
            n == DigitsAndPlus(x)
            plusOne == Len(n) >= 2 /\ n[1] = 43 /\ n[2] = 49
            rest == SubSeq(n, 3, Len(n))
        IN  CASE HasKey(x) -> call.ret = Some(cache[x])
              [] ~HasKey(x) /\ HasKey(n) -> call.ret = Some(cache[n])
              [] ~HasKey(x) /\ ~HasKey(n) /\ plusOne /\ HasKey(rest) ->
                    call.ret = Some(cache[rest])
              [] OTHER -> call.ret = None

C8_Witness ==
    /\ call.op = "resolve"
    /\ call.identifier = <<43, 49, 45, 53>>
    /\ DOMAIN cache = { <<53>>, <<49, 53>> }
    /\ call.ret = Some(cache[<<53>>])

\* C9: add with a non-empty identifier and a non-empty name sets
\* identifier -> name, overwriting a prior value and changing no other key;
\* add with an empty identifier or an empty name leaves the cache unchanged;
\* so no empty key and no empty value is ever stored and resolve("") is None.
C9_AddContract ==
    /\ [](/\ \A k \in DOMAIN cache : k # <<>> /\ cache[k] # <<>>
          /\ resolve(cache, <<>>) = None)
    /\ [][call'.op = "add" =>
            IF call'.identifier # <<>> /\ call'.name # <<>>
            THEN /\ DOMAIN cache' = DOMAIN cache \cup {call'.identifier}
                 /\ cache'[call'.identifier] = call'.name
                 /\ \A k \in DOMAIN cache \ {call'.identifier} : cache'[k] = cache[k]
            ELSE cache' = cache]_vars

\* an add has replaced the name an identifier had
C9_Witness ==
    /\ call.op = "add"
    /\ call.ret # None
    /\ call.ret # Some(call.name)
    /\ Cardinality(DOMAIN cache) = 2
    /\ cache[call.identifier] = call.name

\* C17: no step of the resolver removes a stored key, and a resolve leaves the
\* cache as it was.
C17_CacheOnlyGrows ==
    [][/\ DOMAIN cache \subseteq DOMAIN cache'
       /\ call'.op = "resolve" => cache' = cache]_vars

\* a resolve that found nothing, on a cache grown to two entries
C17_Witness ==
    /\ call.op = "resolve"
    /\ call.ret = None
    /\ Cardinality(DOMAIN cache) >= 2
    /\ call.identifier \notin DOMAIN cache

(***************************************************************************)
(* Timestamps: the claims                                                  *)
(***************************************************************************)

Normalized == unix_ts # None
TwinNormalized == nanos_ts # None

\* C3, as the claim states it: for every whole-second value s whose
\* nanosecond encoding s * 10^9 is an i64, apple_to_unix(s) equals
\* apple_to_unix(s * 10^9).
C3_AnySecondsAgreeWithNanos ==
    (Normalized /\ TwinNormalized) => unix_ts = nanos_ts

\* C3, amended: the two encodings normalize to the same timestamp when s is 0
\* or s exceeds 1000, that is when s * 10^9 exceeds the 10^12 threshold (s is
\* at most 9223372036, so that s * 10^9 is an i64).
C3_SecondsAboveThresholdAgreeWithNanos ==
    (/\ Normalized
     /\ TwinNormalized
     /\ (apple_ts = WOfNat(0) \/ WLess(WOfNat(1000), apple_ts)))
        => unix_ts = nanos_ts

C3_Witness ==
    /\ Normalized
    /\ TwinNormalized
    /\ apple_ts = Wide(FALSE, 0, 9, 223372036)
    /\ nanos_ts = Some(Wide(FALSE, 0, 10, 201679236))

C5_ScaledByMagnitude ==
    Normalized =>
        unix_ts = Some(WAdd(IF MagLess(NS_THRESHOLD, apple_ts)
                                THEN WDivNanos(apple_ts) ELSE apple_ts,
                            WOfNat(APPLE_EPOCH_OFFSET)))

\* C5, amended: when t exceeds 10^12 the result is t / 10^9 + 978307200 (the
\* quotient q with q * 10^9 <= t < (q + 1) * 10^9); otherwise, and so for
\* every negative t whatever its magnitude, it is t + 978307200.
C5_ScaledAboveThresholdOnly ==
    Normalized =>
        LET q == WSub(unix_ts[1], WOfNat(APPLE_EPOCH_OFFSET))
        IN  IF WLess(NS_THRESHOLD, apple_ts)
            THEN /\ q.hi = 0
                 /\ WLeq(WMulNanos(q), apple_ts)
                 /\ WLess(apple_ts, WAdd(WMulNanos(q), WOfNat(NANOS_PER_SEC)))
            ELSE q = apple_ts

C5_Witness ==
    /\ Normalized
    /\ WLess(apple_ts, WNeg(NS_THRESHOLD))
    /\ unix_ts = Some(WAdd(apple_ts, WOfNat(APPLE_EPOCH_OFFSET)))

(***************************************************************************)
(* models.rs                                                               *)
(***************************************************************************)

\* models.rs:7-15: each code with the UTF-8 bytes of its symbol
REACTION_EMOJI ==
    << <<2000, <<226, 157, 164, 239, 184, 143>> >>,
       <<2001, <<240, 159, 145, 141>> >>,
       <<2002, <<240, 159, 145, 142>> >>,
       <<2003, <<240, 159, 152, 130>> >>,
       <<2004, <<226, 128, 188, 239, 184, 143>> >>,
       <<2005, <<226, 157, 147>> >>,
       <<2006, <<240, 159, 171, 182>> >> >>

\* A slip the claims must notice: every code is shown as the first symbol.
reaction_emoji_always_loved(code) == Some(REACTION_EMOJI[1][2])

\* models.rs:18-23
reaction_emoji(code) ==
    LET hits == { i \in 1 .. Len(REACTION_EMOJI) : REACTION_EMOJI[i][1] = code }
    IN  IF hits = {} THEN None ELSE Some(REACTION_EMOJI[Least(hits)][2])

\* U+FFFC, the object replacement character, in UTF-8
OBJECT_REPLACEMENT == <<239, 191, 188>>

\* char::is_whitespace on the one-byte characters (the texts drawn below hold
\* no multi-byte white space)
IsWhitespace(b) == b \in {9, 10, 11, 12, 13, 32}

RECURSIVE TrimStart(_)
TrimStart(s) ==
    IF s # <<>> /\ IsWhitespace(s[1]) THEN TrimStart(Tail(s)) ELSE s

RECURSIVE TrimEnd(_)
TrimEnd(s) ==
    IF s # <<>> /\ IsWhitespace(s[Len(s)])
    THEN TrimEnd(SubSeq(s, 1, Len(s) - 1))
    ELSE s

\* str::trim
Trim(s) == TrimEnd(TrimStart(s))

\* str::replace(pattern, "")
RECURSIVE RemoveAll(_, _)
RemoveAll(s, pattern) ==
    IF Len(s) < Len(pattern) THEN s
    ELSE IF SubSeq(s, 1, Len(pattern)) = pattern
        THEN RemoveAll(SkipBytes(s, Len(pattern)), pattern)
        ELSE <<s[1]>> \o RemoveAll(Tail(s), pattern)

\* models.rs:74-76
display_text(msg) == Trim(RemoveAll(msg.text, OBJECT_REPLACEMENT))

\* Vec::contains
Contains(seq, x) == \E i \in 1 .. Len(seq) : seq[i] = x

\* [String]::join("")
RECURSIVE Join(_)
Join(strings) ==
    IF strings = <<>> THEN <<>> ELSE Head(strings) \o Join(Tail(strings))

\* models.rs:86-91, the loop that fills seen
RECURSIVE SeenEmoji(_, _)
SeenEmoji(rs, seen) ==
    IF rs = <<>> THEN seen
    ELSE SeenEmoji(Tail(rs), IF Contains(seen, Head(rs).emoji)
                                THEN seen
                                ELSE Append(seen, Head(rs).emoji))

\* A slip the claims must notice: every reaction's symbol is joined.
reaction_summary_of_all(msg) ==
    Join([k \in 1 .. Len(msg.reactions) |-> msg.reactions[k].emoji])

\* models.rs:85-93
reaction_summary(msg) == Join(SeenEmoji(msg.reactions, <<>>))

(***************************************************************************)
(* db.rs: load_messages, load_attachments, load_reactions                  *)
(***************************************************************************)

\* db.rs:146
LIMIT == 15

\* db.rs:259
RECOGNIZED_TYPES == {2000, 2001, 2002, 2003, 2004, 2005, 2006}

\* chrono's DateTime::<Utc>::MIN_UTC and MAX_UTC, in seconds
CHRONO_MIN == Wide(TRUE, 0, 8334, 601228800)
CHRONO_MAX == Wide(FALSE, 0, 8210, 266876799)

\* DateTime::from_timestamp(unix_ts, 0).unwrap_or_else(Utc::now): a DateTime
\* is the seconds it holds
FromTimestamp(unix, now) ==
    IF WLeq(CHRONO_MIN, unix) /\ WLeq(unix, CHRONO_MAX) THEN unix ELSE now

Reverse(s) == [i \in 1 .. Len(s) |-> s[Len(s) + 1 - i]]

\* ORDER BY m.date DESC: the orders in which the query may return the rows
\* (rows of equal date in either order)
FetchOrders(rows) ==
    { ord \in [1 .. Len(rows) -> 1 .. Len(rows)] :
        /\ \A i, j \in 1 .. Len(rows) : i # j => ord[i] # ord[j]
        /\ \A i, j \in 1 .. Len(rows) :
              i < j => ~WLess(rows[ord[i]].date, rows[ord[j]].date) }

\* ... LIMIT 15
Fetched(rows, ord) ==
    [i \in 1 .. (IF Len(rows) < LIMIT THEN Len(rows) ELSE LIMIT) |-> rows[ord[i]]]

\* A slip the claims must notice: the decoded blob is preferred to the text.
final_text_blob_first(row) ==
    IF row.attributed_body # None
       /\ parse_attributed_body(row.attributed_body[1]) # None
    THEN parse_attributed_body(row.attributed_body[1])[1]
    ELSE IF row.text # None THEN row.text[1] ELSE <<>>

\* db.rs:169-172
final_text(row) ==
    IF row.text # None /\ row.text[1] # <<>> THEN row.text[1]
    ELSE IF row.attributed_body # None
            /\ parse_attributed_body(row.attributed_body[1]) # None
        THEN parse_attributed_body(row.attributed_body[1])[1]
        ELSE <<>>

UnwrapOrDefault(opt) == IF opt = None THEN <<>> ELSE opt[1]

HasFilename(att) == att.filename # <<>>

\* A slip the claims must notice: rows without a filename are kept.
load_attachments_unfiltered(row) ==
    [i \in 1 .. Len(row.attachments) |->
        [filename |-> UnwrapOrDefault(row.attachments[i].filename),
         mime_type |-> UnwrapOrDefault(row.attachments[i].mime_type),
         transfer_name |-> UnwrapOrDefault(row.attachments[i].transfer_name)]]

\* db.rs:212-237
load_attachments(row) ==
    SelectSeq([i \in 1 .. Len(row.attachments) |->
                  [filename |-> UnwrapOrDefault(row.attachments[i].filename),
                   mime_type |-> UnwrapOrDefault(row.attachments[i].mime_type),
                   transfer_name |-> UnwrapOrDefault(row.attachments[i].transfer_name)]],
              HasFilename)

\* db.rs:166-196: the Message a fetched row makes
RowMessage(row, now) ==
    [rowid |-> row.rowid,
     guid |-> row.guid,
     text |-> final_text(row),
     date |-> FromTimestamp(apple_to_unix(row.date), now),
     is_from_me |-> row.is_from_me,
     sender |-> row.sender,
     attachments |-> IF row.has_attachments THEN load_attachments(row) ELSE <<>>,
     reactions |-> <<>>]

\* db.rs:185
Retained(msg) == Trim(msg.text) # <<>> \/ msg.attachments # <<>>

\* db.rs:241-246: "p:0/<guid>", "p:1/<guid>", "bp:<guid>" for each guid
Prefixed(guids) ==
    UNION { { <<112, 58, 48, 47>> \o guids[i],
              <<112, 58, 49, 47>> \o guids[i],
              <<98, 112, 58>> \o guids[i] } : i \in 1 .. Len(guids) }

\* db.rs:255-259: the rows the reaction query returns, in table order
ReactionRows(rows, guids) ==
    LET Matches(row) == /\ row.associated_message_guid \in Prefixed(guids)
                        /\ row.associated_message_type \in RECOGNIZED_TYPES
    IN  SelectSeq(rows, Matches)

\* the offsets of '/' in s
Slashes(s) == { i \in 1 .. Len(s) : s[i] = 47 }

\* s.split('/').nth(1)
SplitNth1(s) ==
    IF Slashes(s) = {} THEN None
    ELSE LET first == Least(Slashes(s))
             later == { i \in Slashes(s) : i > first }
             stop  == IF later = {} THEN Len(s) + 1 ELSE Least(later)
         IN  Some(SubSeq(s, first + 1, stop - 1))

\* db.rs:285-291
target_guid(assoc_guid) ==
    IF StartsWith(assoc_guid, <<112, 58>>) THEN SplitNth1(assoc_guid)
    ELSE IF StartsWith(assoc_guid, <<98, 112, 58>>) THEN Some(SkipBytes(assoc_guid, 3))
    ELSE Some(assoc_guid)

\* db.rs:275-279: guid -> index, a later message replacing an earlier one
GuidMap(messages) ==
    [g \in { messages[i].guid : i \in 1 .. Len(messages) } |->
        CHOOSE i \in 1 .. Len(messages) :
            /\ messages[i].guid = g
            /\ \A j \in 1 .. Len(messages) : messages[j].guid = g => j <= i]

\* db.rs:281-304
RECURSIVE AttachReactions(_, _, _)
AttachReactions(messages, rows, guid_map) ==
    IF rows = <<>> THEN messages
    ELSE LET row    == Head(rows)
             target == target_guid(row.associated_message_guid)
             emoji  == reaction_emoji(row.associated_message_type)
             hit    == /\ target # None
                       /\ target[1] \in DOMAIN guid_map
                       /\ emoji # None
             idx    == guid_map[target[1]]
             pushed == [messages EXCEPT ![idx].reactions =
                           Append(@, [emoji |-> emoji[1],
                                      is_from_me |-> row.is_from_me[1],
                                      sender |-> row.sender])]
         IN  AttachReactions(IF hit THEN pushed ELSE messages, Tail(rows), guid_map)

\* db.rs:265-272, 282: the closure reads the four columns of a row and
\* "row?" hands on its error; is_from_me is read as a bool, which NULL is not
Readable(row) == row.is_from_me # None

\* A slip the claims must notice: the rows are visited last to first.
load_reactions_newest_first(messages, guids, rows, failing) ==
    IF Prefixed(guids) = {} THEN Ok(messages)
    ELSE Ok(AttachReactions(messages, Reverse(ReactionRows(rows, guids)),
                            GuidMap(messages)))

\* db.rs:239-307; failing holds the queries the store fails
load_reactions(messages, guids, rows, failing) ==
    IF Prefixed(guids) = {} THEN Ok(messages)
    ELSE IF "reactions" \in failing THEN Err("Sqlite")
    ELSE LET fetched == ReactionRows(rows, guids)
         IN  IF \E i \in 1 .. Len(fetched) : ~Readable(fetched[i])
             THEN Err("Sqlite")
             ELSE Ok(AttachReactions(messages, fetched, GuidMap(messages)))

\* db.rs:128-210, on the rows the message query returned: Ok(conv.messages),
\* or the error of the first query that fails
load_messages(fetched, annotations, now, failing) ==
    LET built    == [i \in 1 .. Len(fetched) |-> RowMessage(fetched[i], now)]
        messages == SelectSeq(built, Retained)
        guids    == [i \in 1 .. Len(messages) |-> messages[i].guid]
        reacted  == IF guids # <<>>
                    THEN load_reactions(messages, guids, annotations, failing)
                    ELSE Ok(messages)
    IN  IF "messages" \in failing THEN Err("Sqlite")
        ELSE IF /\ "attachments" \in failing
                /\ \E i \in 1 .. Len(fetched) : fetched[i].has_attachments
            THEN Err("Sqlite")
        ELSE IF ~reacted.ok THEN reacted
        ELSE Ok(Reverse(reacted.value))

\* What Utc::now may read while the rows are built.
ClockReadings == { WOfNat(1800000000) }

\* db.rs:103, self.load_messages(conv)
LoadMessages ==
    /\ returned = None
    /\ \E ord \in FetchOrders(message_rows), now \in ClockReadings :
          LET result == load_messages(Fetched(message_rows, ord), annotation_rows,
                                      now, faults)
          IN  /\ returned' = Some(IF result.ok THEN "Ok" ELSE result.error)
              /\ conv_messages' = IF result.ok THEN Some(result.value)
                                               ELSE conv_messages
    /\ UNCHANGED <<message_rows, annotation_rows, faults, tsVars, decVars,
                   conVars, sumVars, cmdVars, storeVars, appVars>>

(***************************************************************************)
(* The store: the inputs                                                   *)
(***************************************************************************)

\* The most message rows, and the most annotation rows, the store holds.
MaxMsgs == 2
MaxAnnots == 2

\* An attributedBody whose payload is the given bytes (fewer than 128).
BlobOf(payload) == MARKER \o Zeros(GAP) \o <<Len(payload)>> \o payload

\* text and attributedBody of a row: "a"; "" with a blob of "b"; NULL with a
\* blob of "b"; NULL with a blob that does not decode; "a" with a blob of "b";
\* U+FFFC alone; " " alone; U+FFFC in a blob; NULL and NULL
SrcPlain == [text |-> Some(<<97>>), attributed_body |-> None]
SrcObject == [text |-> Some(OBJECT_REPLACEMENT), attributed_body |-> None]
SrcNull == [text |-> None, attributed_body |-> None]
SrcGarbled == [text |-> None, attributed_body |-> Some(<<1, 2, 3>>)]

Sources ==
    { SrcPlain, SrcObject, SrcNull,
      [text |-> Some(<<>>), attributed_body |-> Some(BlobOf(<<98>>))],
      [text |-> None, attributed_body |-> Some(BlobOf(<<98>>))],
      SrcGarbled,
      [text |-> Some(<<97>>), attributed_body |-> Some(BlobOf(<<98>>))],
      [text |-> Some(<<32>>), attributed_body |-> None],
      [text |-> None, attributed_body |-> Some(BlobOf(OBJECT_REPLACEMENT))] }

\* m.date: 725846400 s; one minute later, in ns; 2000 s, in ns; and i64::MIN
DateSeconds == WOfNat(725846400)
Dates ==
    { DateSeconds, Wide(FALSE, 0, 725846460, 0), Wide(FALSE, 0, 2000, 0), I64_MIN }

\* a row of the attachment table: "f" of type "image/"; and one with no filename
FileRow ==
    [filename |-> Some(<<102>>), mime_type |-> Some(<<105, 109, 97, 103, 101, 47>>),
     transfer_name |-> Some(<<102>>)]
NamelessRow == [filename |-> None, mime_type |-> None, transfer_name |-> None]

\* cache_has_attachments and the attachment rows joined to the message
NoAttachments == [has_attachments |-> FALSE, attachments |-> <<>>]
Attachings ==
    { NoAttachments,
      [has_attachments |-> TRUE, attachments |-> <<FileRow>>],
      [has_attachments |-> TRUE, attachments |-> <<NamelessRow>>],
      [has_attachments |-> TRUE, attachments |-> <<NamelessRow, FileRow>>],
      [has_attachments |-> FALSE, attachments |-> <<FileRow>>] }

\* what a message row holds besides its rowid and guid
RowKinds ==
    { <<src, DateSeconds, NoAttachments>> : src \in Sources }
    \cup { <<SrcPlain, d, NoAttachments>> : d \in Dates }
    \cup { <<src, DateSeconds, att>> : src \in {SrcPlain, SrcObject, SrcNull},
                                      att \in Attachings }
    \cup { <<SrcGarbled, DateSeconds,
             [has_attachments |-> TRUE, attachments |-> <<FileRow>>]>> }

\* the guid of the i-th row: "A", "B", ...
GuidOf(i) == <<64 + i>>

MessageRow(i, kind) ==
    [rowid |-> i,
     guid |-> GuidOf(i),
     text |-> kind[1].text,
     attributed_body |-> kind[1].attributed_body,
     date |-> kind[2],
     is_from_me |-> FALSE,
     has_attachments |-> kind[3].has_attachments,
     attachments |-> kind[3].attachments,
     sender |-> None]

MessageTables(kinds, n) ==
    UNION { { [i \in 1 .. k |-> MessageRow(i, ks[i])] : ks \in [1 .. k -> kinds] } :
            k \in 0 .. n }

AnnotationRow(assoc, type) ==
    [associated_message_guid |-> assoc, associated_message_type |-> type,
     is_from_me |-> Some(FALSE), sender |-> None]

InitLoad ==
    /\ message_rows \in MessageTables(RowKinds, MaxMsgs)
    /\ annotation_rows = << AnnotationRow(<<112, 58, 48, 47>> \o GuidOf(1), 2000) >>
    /\ faults = {}
    /\ conv_messages = None
    /\ returned = None
    /\ IdleTs
    /\ IdleDec
    /\ IdleCon
    /\ IdleSum
    /\ IdleCmd
    /\ IdleStore
    /\ IdleApp

NextLoad == LoadMessages

Loaded == conv_messages # None

SpecLoad == InitLoad /\ [][NextLoad]_vars

(***************************************************************************)
(* Reactions: the inputs                                                   *)
(***************************************************************************)

\* The message tables under the annotations: two kept rows; a row that is
\* dropped (NULL text, no attachment) before a kept one; one kept row.
PlainKind == <<SrcPlain, DateSeconds, NoAttachments>>
NullKind == <<SrcNull, DateSeconds, NoAttachments>>
ReactionTables ==
    { << MessageRow(1, PlainKind), MessageRow(2, PlainKind) >>,
      << MessageRow(1, NullKind), MessageRow(2, PlainKind) >>,
      << MessageRow(1, PlainKind) >> }

\* associated_message_guid: for the guid g of row 1 and of row 2, "p:0/g",
\* "p:1/g", "p:2/g", "bp:g", g itself, and "p:g" (no slash)
AssociatedGuids ==
    UNION { { <<112, 58, 48, 47>> \o g, <<112, 58, 49, 47>> \o g,
              <<112, 58, 50, 47>> \o g, <<98, 112, 58>> \o g, g,
              <<112, 58>> \o g } : g \in { GuidOf(1), GuidOf(2) } }

\* associated_message_type: loved, heart hands, and 3000 (a removed "loved")
AssociatedTypes == {2000, 2006, 3000}

AnnotationKinds ==
    { AnnotationRow(a, t) : a \in AssociatedGuids, t \in AssociatedTypes }

AnnotationTables(n) ==
    UNION { [1 .. k -> AnnotationKinds] : k \in 0 .. n }

InitReact ==
    /\ message_rows \in ReactionTables
    /\ annotation_rows \in AnnotationTables(MaxAnnots)
    /\ faults = {}
    /\ conv_messages = None
    /\ returned = None
    /\ IdleTs
    /\ IdleDec
    /\ IdleCon
    /\ IdleSum
    /\ IdleCmd
    /\ IdleStore
    /\ IdleApp

SpecReact == InitReact /\ [][NextLoad]_vars

(***************************************************************************)
(* Reactions: the claims                                                   *)
(***************************************************************************)

\* assoc is "p:<index>/g" for a one-digit index, "bp:g", or g itself
RefersTo(assoc, g) ==
    \/ assoc = g
    \/ assoc = <<98, 112, 58>> \o g
    \/ \E index \in 48 .. 57 : assoc = <<112, 58, index, 47>> \o g

\* the symbols of the annotation rows with a recognized code that refer to g,
\* in table order
RECURSIVE SymbolsFor(_, _)
SymbolsFor(rows, g) ==
    IF rows = <<>> THEN <<>>
    ELSE LET row == Head(rows)
             sym == { REACTION_EMOJI[i][2] : i \in { j \in 1 .. Len(REACTION_EMOJI) :
                        REACTION_EMOJI[j][1] = row.associated_message_type } }
         IN  (IF RefersTo(row.associated_message_guid, g) /\ sym # {}
                 THEN << CHOOSE e \in sym : TRUE >> ELSE <<>>)
             \o SymbolsFor(Tail(rows), g)

\* C2: for every message guid g in scope, an annotation row with a recognized
\* code whose associated guid is "p:<index>/g" for any index, "bp:g" or g
\* itself is returned by the reaction query and yields a Reaction on the
\* message whose guid is g.
C2_EveryFormOfReferenceYieldsReaction ==
    Loaded =>
        \A i \in 1 .. Len(conv_messages[1]) :
            LET msg == conv_messages[1][i]
            IN  [k \in 1 .. Len(msg.reactions) |-> msg.reactions[k].emoji]
                    = SymbolsFor(annotation_rows, msg.guid)

\* the emoji of the reactions of a message, in order
Emojis(msg) == [k \in 1 .. Len(msg.reactions) |-> msg.reactions[k].emoji]

\* the symbol models.rs:7-15 gives a code of the table
SymbolOf(code) ==
    REACTION_EMOJI[CHOOSE i \in 1 .. Len(REACTION_EMOJI) :
                      REACTION_EMOJI[i][1] = code][2]

\* how many reactions of the loaded list show the symbol e
ShownAs(e) ==
    LET RECURSIVE Count(_)
        Count(i) ==
            IF i = 0 THEN 0
            ELSE Count(i - 1)
                 + Cardinality({ k \in 1 .. Len(conv_messages[1][i].reactions) :
                                   conv_messages[1][i].reactions[k].emoji = e })
    IN  Count(Len(conv_messages[1]))

\* C11: the table holds exactly the codes 2000..2006, each with a symbol of
\* its own; every Reaction of the loaded list shows the symbol of a code of
\* that set, and there are no more reactions showing a code's symbol than
\* there are annotation rows with that code: a row with any other code yields
\* no Reaction on any message.
C11_OnlyRecognizedCodesReact ==
    /\ { REACTION_EMOJI[i][1] : i \in 1 .. Len(REACTION_EMOJI) } = 2000 .. 2006
    /\ \A i, j \in 1 .. Len(REACTION_EMOJI) :
          i # j => /\ REACTION_EMOJI[i][1] # REACTION_EMOJI[j][1]
                   /\ REACTION_EMOJI[i][2] # REACTION_EMOJI[j][2]
    /\ Loaded =>
          /\ \A i \in 1 .. Len(conv_messages[1]) :
                \A k \in 1 .. Len(conv_messages[1][i].reactions) :
                    \E code \in 2000 .. 2006 :
                        conv_messages[1][i].reactions[k].emoji = SymbolOf(code)
          /\ \A code \in 2000 .. 2006 :
                ShownAs(SymbolOf(code))
                    <= Cardinality({ r \in 1 .. Len(annotation_rows) :
                          annotation_rows[r].associated_message_type = code })

\* a row with code 2006 has put its symbol on a message of the list, and a
\* row with code 3000 that refers to a listed message has put nothing
C11_Witness ==
    /\ Loaded
    /\ Len(annotation_rows) = 2
    /\ \E i \in 1 .. Len(conv_messages[1]) :
          /\ Emojis(conv_messages[1][i]) = << SymbolOf(2006) >>
          /\ \E r \in 1 .. 2 :
                /\ annotation_rows[r].associated_message_type = 3000
                /\ annotation_rows[r].associated_message_guid
                       = <<112, 58, 48, 47>> \o conv_messages[1][i].guid

\* the guids of the loaded list
ListedGuids == { conv_messages[1][i].guid : i \in 1 .. Len(conv_messages[1]) }

\* assoc is one of the references the reaction query asks for, to g
AskedFor(assoc, g) ==
    assoc \in { <<112, 58, 48, 47>> \o g, <<112, 58, 49, 47>> \o g, <<98, 112, 58>> \o g }

\* the symbols of the rows that arrive from the reaction query (a recognized
\* code, a reference the query asks for) and refer to g, in arrival order
RECURSIVE ArrivedFor(_, _)
ArrivedFor(rows, g) ==
    IF rows = <<>> THEN <<>>
    ELSE (IF /\ AskedFor(Head(rows).associated_message_guid, g)
             /\ Head(rows).associated_message_type \in 2000 .. 2006
          THEN << SymbolOf(Head(rows).associated_message_type) >>
          ELSE <<>>)
         \o ArrivedFor(Tail(rows), g)

\* C12: in the loaded (reversed) list the reactions of each message are those
\* of the arrived annotation rows whose decoded target is that message's
\* guid, in the order the rows arrived.
C12_ReactionsOnTargetInArrivalOrder ==
    Loaded =>
        \A i \in 1 .. Len(conv_messages[1]) :
            Emojis(conv_messages[1][i])
                = ArrivedFor(annotation_rows, conv_messages[1][i].guid)

\* two messages, the first row's message carrying two reactions through two
\* forms of reference
C12_Witness ==
    /\ Loaded
    /\ Len(conv_messages[1]) = 2
    /\ annotation_rows = << AnnotationRow(<<98, 112, 58>> \o GuidOf(1), 2006),
                            AnnotationRow(<<112, 58, 49, 47>> \o GuidOf(1), 2000) >>
    /\ \E i \in 1 .. 2 :
          /\ conv_messages[1][i].guid = GuidOf(1)
          /\ Emojis(conv_messages[1][i]) = << SymbolOf(2006), SymbolOf(2000) >>
          /\ conv_messages[1][3 - i].reactions = <<>>

(***************************************************************************)
(* Reactions: rows that cannot be read                                     *)
(***************************************************************************)

\* an annotation row whose is_from_me is NULL
NullFlagRow(assoc, type) ==
    [associated_message_guid |-> assoc, associated_message_type |-> type,
     is_from_me |-> None, sender |-> None]

\* "p:0/A" loved; "p:0/A" liked, NULL flag; "p:1/B" heart hands; "bp:B"
\* laughed, NULL flag; and two rows the query does not return, NULL flag:
\* "p:A" (no slash) loved and "p:0/A" with code 3000
SkipKinds ==
    { AnnotationRow(<<112, 58, 48, 47>> \o GuidOf(1), 2000),
      NullFlagRow(<<112, 58, 48, 47>> \o GuidOf(1), 2001),
      AnnotationRow(<<112, 58, 49, 47>> \o GuidOf(2), 2006),
      NullFlagRow(<<98, 112, 58>> \o GuidOf(2), 2003),
      NullFlagRow(<<112, 58>> \o GuidOf(1), 2000),
      NullFlagRow(<<112, 58, 48, 47>> \o GuidOf(1), 3000) }

InitSkip ==
    /\ message_rows \in ReactionTables
    /\ annotation_rows \in UNION { [1 .. k -> SkipKinds] : k \in 0 .. MaxAnnots }
    /\ faults = {}
    /\ conv_messages = None
    /\ returned = None
    /\ IdleTs
    /\ IdleDec
    /\ IdleCon
    /\ IdleSum
    /\ IdleCmd
    /\ IdleStore
    /\ IdleApp

SpecSkip == InitSkip /\ [][NextLoad]_vars

\* the call has returned
Returned == returned # None

\* the row is one the reaction query returns for a guid of the message table
\* and one of its columns cannot be read
ArrivesMalformed(row) ==
    /\ row.is_from_me = None
    /\ row.associated_message_type \in 2000 .. 2006
    /\ \E i \in 1 .. Len(message_rows) :
          /\ message_rows[i].text # None
          /\ AskedFor(row.associated_message_guid, message_rows[i].guid)

WellFormed(row) == row.is_from_me # None

\* C19: when a returned annotation row cannot be read, load_reactions skips
\* it, attaches the reactions of the well-formed rows and returns success.
C19_MalformedRowsAreSkipped ==
    (/\ Returned
     /\ \E r \in 1 .. Len(annotation_rows) : ArrivesMalformed(annotation_rows[r]))
    => /\ returned = Some("Ok")
       /\ Loaded
       /\ \A i \in 1 .. Len(conv_messages[1]) :
             Emojis(conv_messages[1][i])
                 = ArrivedFor(SelectSeq(annotation_rows, WellFormed),
                              conv_messages[1][i].guid)

(***************************************************************************)
(* The loader: the claims                                                  *)
(***************************************************************************)

\* C1: after load_messages every message of the list has non-empty display
\* text (U+FFFC removed, white space trimmed) or at least one attachment; a
\* row whose text is only U+FFFC and that has no attachments is dropped.
C1_RetainedHaveDisplayTextOrAttachment ==
    Loaded =>
        \A i \in 1 .. Len(conv_messages[1]) :
            \/ display_text(conv_messages[1][i]) # <<>>
            \/ conv_messages[1][i].attachments # <<>>

\* the row of the message table a loaded message was made from
RowOf(msg) == message_rows[CHOOSE r \in 1 .. Len(message_rows) :
                              message_rows[r].rowid = msg.rowid]

\* The text the claim derives for a row: the raw text when present and not
\* empty, else what the decoder makes of the blob when there is a blob and it
\* decodes, else the empty string.
DerivedText(row) ==
    CASE row.text # None /\ Len(row.text[1]) > 0 -> row.text[1]
      [] OTHER ->
           IF row.attributed_body = None THEN <<>>
           ELSE IF parse_attributed_body(row.attributed_body[1]) = None THEN <<>>
           ELSE parse_attributed_body(row.attributed_body[1])[1]

\* C15: every loaded message carries the derived text of its row; a blob
\* that does not decode gives the empty text and does not abort the load:
\* the call returns Ok and every row with a derived text that is not blank
\* is in the list.
C15_TextPrefersRawThenBlobThenEmpty ==
    Loaded =>
        /\ returned = Some("Ok")
        /\ \A i \in 1 .. Len(conv_messages[1]) :
              conv_messages[1][i].text = DerivedText(RowOf(conv_messages[1][i]))
        /\ \A r \in 1 .. Len(message_rows) :
              Trim(DerivedText(message_rows[r])) # <<>>
                  => \E i \in 1 .. Len(conv_messages[1]) :
                        conv_messages[1][i].rowid = message_rows[r].rowid

\* a row whose blob does not decode is loaded with empty text beside a row
\* whose text came from its blob
C15_Witness ==
    /\ Loaded
    /\ Len(conv_messages[1]) = 2
    /\ \E i \in 1 .. 2 :
          /\ RowOf(conv_messages[1][i]).attributed_body = Some(<<1, 2, 3>>)
          /\ conv_messages[1][i].text = <<>>
          /\ RowOf(conv_messages[1][3 - i]).text = Some(<<>>)
          /\ conv_messages[1][3 - i].text = <<98>>

\* C16: a message whose row has the presence flag unset has no attachments,
\* whatever rows the attachment table joins to it; a message whose row has
\* it set has the joined rows with a filename, in order; no attachment of any
\* message has an empty filename.
C16_AttachmentsOnlyWhenFlaggedAndNamed ==
    Loaded =>
        \A i \in 1 .. Len(conv_messages[1]) :
            LET msg == conv_messages[1][i]
                named == SelectSeq(RowOf(msg).attachments,
                                   LAMBDA a : a.filename # None /\ a.filename[1] # <<>>)
            IN  /\ ~RowOf(msg).has_attachments => msg.attachments = <<>>
                /\ RowOf(msg).has_attachments =>
                      [k \in 1 .. Len(msg.attachments) |-> msg.attachments[k].filename]
                          = [k \in 1 .. Len(named) |-> named[k].filename[1]]
                /\ \A k \in 1 .. Len(msg.attachments) :
                      msg.attachments[k].filename # <<>>

\* one message lost the joined row without a filename, the other has joined
\* rows but no flag
C16_Witness ==
    /\ Loaded
    /\ Len(conv_messages[1]) = 2
    /\ \E i \in 1 .. 2 :
          /\ RowOf(conv_messages[1][i]).has_attachments
          /\ Len(RowOf(conv_messages[1][i]).attachments) = 2
          /\ Len(conv_messages[1][i].attachments) = 1
          /\ ~RowOf(conv_messages[1][3 - i]).has_attachments
          /\ RowOf(conv_messages[1][3 - i]).attachments # <<>>
          /\ conv_messages[1][3 - i].attachments = <<>>

\* C10: after load_messages the list is in chronological order of the
\* normalized timestamps, no message's date later than the next one's, and
\* holds at most 15 messages.
C10_ChronologicalByNormalizedDate ==
    Loaded =>
        /\ Len(conv_messages[1]) <= 15
        /\ \A i \in 1 .. (Len(conv_messages[1]) - 1) :
              ~WLess(conv_messages[1][i + 1].date, conv_messages[1][i].date)

(***************************************************************************)
(* models.rs: reaction_summary                                             *)
(***************************************************************************)

\* The most reactions on the message summarized.
MaxReactions == 4

\* loved from them, loved from me, liked from me, emphasized from them
ReactionKinds ==
    { [emoji |-> REACTION_EMOJI[1][2], is_from_me |-> FALSE, sender |-> None],
      [emoji |-> REACTION_EMOJI[1][2], is_from_me |-> TRUE, sender |-> None],
      [emoji |-> REACTION_EMOJI[2][2], is_from_me |-> TRUE, sender |-> None],
      [emoji |-> REACTION_EMOJI[5][2], is_from_me |-> FALSE, sender |-> None] }

InitSum ==
    /\ reactions \in UNION { [1 .. k -> ReactionKinds] : k \in 0 .. MaxReactions }
    /\ summary = None
    /\ IdleTs
    /\ IdleDec
    /\ IdleCon
    /\ IdleDb
    /\ IdleCmd
    /\ IdleStore
    /\ IdleApp

\* msg.reaction_summary() on a message with these reactions
ReactionSummary ==
    /\ summary = None
    /\ summary' = Some(reaction_summary([reactions |-> reactions]))
    /\ UNCHANGED <<reactions, tsVars, decVars, conVars, dbVars, cmdVars,
                   storeVars, appVars>>

NextSum == ReactionSummary

SpecSum == InitSum /\ [][NextSum]_vars

Summarized == summary # None

\* the symbols of the reactions, and where each is first seen
SymbolsSeen == { reactions[k].emoji : k \in 1 .. Len(reactions) }
FirstSeen(e) == CHOOSE k \in 1 .. Len(reactions) :
                    /\ reactions[k].emoji = e
                    /\ \A j \in 1 .. (k - 1) : reactions[j].emoji # e

\* the distinct symbols, by where they are first seen
DistinctInOrder ==
    CHOOSE d \in [1 .. Cardinality(SymbolsSeen) -> SymbolsSeen] :
        \A i, j \in 1 .. Cardinality(SymbolsSeen) :
            i < j => FirstSeen(d[i]) < FirstSeen(d[j])

\* how often the bytes of e occur in the string
Occurrences(e, string) ==
    Cardinality({ p \in 1 .. (Len(string) - Len(e) + 1) :
                    SubSeq(string, p, p + Len(e) - 1) = e })

RECURSIVE Concatenated(_)
Concatenated(d) ==
    IF Len(d) = 0 THEN <<>>
    ELSE d[1] \o Concatenated([i \in 1 .. (Len(d) - 1) |-> d[i + 1]])

\* C13: reaction_summary returns the distinct symbols of the reactions joined
\* in first-seen order, each symbol in it exactly once.
C13_SummaryIsDistinctInFirstSeenOrder ==
    Summarized =>
        /\ summary[1] = Concatenated(DistinctInOrder)
        /\ \A e \in SymbolsSeen : Occurrences(e, summary[1]) = 1

\* the test's case (models.rs:313-330): loved, liked, loved gives loved, liked
C13_Witness ==
    /\ Summarized
    /\ [k \in 1 .. Len(reactions) |-> reactions[k].emoji]
           = << REACTION_EMOJI[1][2], REACTION_EMOJI[2][2], REACTION_EMOJI[1][2] >>
    /\ reactions[1].is_from_me # reactions[3].is_from_me
    /\ summary[1] = REACTION_EMOJI[1][2] \o REACTION_EMOJI[2][2]

(***************************************************************************)
(* main.rs: the commands that use AppState.contacts                        *)
(***************************************************************************)

\* The most commands in flight at once.
MaxCommands == 2

Commands == 1 .. MaxCommands

\* A slip the claims must notice: a lock that never waits.
CanLockAlways(owner) == TRUE

\* Mutex::lock returns once no one holds the mutex
CanLock(owner) == owner = None

\* str::to_lowercase on ASCII
ToLowercase(str) ==
    [i \in 1 .. Len(str) |-> IF str[i] \in 65 .. 90 THEN str[i] + 32 ELSE str[i]]

\* contacts.rs:98-108 and 127-139: the adds one row of the address book makes
\* (other is the normalized number, or the lower-case address)
RowAdds(name, identifier, other) ==
    IF Trim(name) # <<>> /\ Trim(name) # <<32>>
    THEN << <<identifier, Trim(name)>> >>
         \o (IF other # identifier THEN << <<other, Trim(name)>> >> ELSE <<>>)
    ELSE <<>>

\* contacts.rs:73-142: the adds load_from_addressbook_db makes, in order
RECURSIVE PhoneAdds(_)
PhoneAdds(rows) ==
    IF rows = <<>> THEN <<>>
    ELSE RowAdds(Head(rows)[1], Head(rows)[2], normalize_phone(Head(rows)[2]))
         \o PhoneAdds(Tail(rows))

RECURSIVE EmailAdds(_)
EmailAdds(rows) ==
    IF rows = <<>> THEN <<>>
    ELSE RowAdds(Head(rows)[1], Head(rows)[2], ToLowercase(Head(rows)[2]))
         \o EmailAdds(Tail(rows))

load_from_addressbook_db(book) == PhoneAdds(book.phones) \o EmailAdds(book.emails)

\* main.rs:40-60: the identifiers get_conversations resolves, in order
RECURSIVE ResolveTargets(_)
ResolveTargets(convs) ==
    IF convs = <<>> THEN <<>>
    ELSE LET conv == Head(convs)
         IN  (IF conv.display_name = None \/ conv.display_name = Some(<<>>)
              THEN IF conv.style = 43 THEN conv.participants
                                      ELSE << conv.chat_identifier >>
              ELSE <<>>)
             \o ResolveTargets(Tail(convs))

\* What unread_conversations hands get_conversations: nothing; a 1:1 chat
\* with "+1-5"; a group of "5" and "1"; a chat that has a display name.
ConversationLists ==
    { <<>>,
      << [display_name |-> None, style |-> 45,
          chat_identifier |-> <<PLUS, ONE, MINUS, FIVE>>, participants |-> <<>>] >>,
      << [display_name |-> Some(<<>>), style |-> 43,
          chat_identifier |-> <<99>>, participants |-> << <<FIVE>>, <<ONE>> >>] >>,
      << [display_name |-> Some(<<71>>), style |-> 45,
          chat_identifier |-> <<FIVE>>, participants |-> <<>>] >> }

\* The address book: "A" with the number "+1-5"; a record whose name is " "
\* with the number "1", then "B" with the address "B@".
AddressBooks ==
    { [phones |-> << << <<65, 32>>, <<PLUS, ONE, MINUS, FIVE>> >> >>, emails |-> <<>>],
      [phones |-> << << <<32>>, <<ONE>> >> >>,
       emails |-> << << <<32, 66>>, <<66, 64>> >> >>] }

InitCmd ==
    /\ pc = [t \in Commands |-> "idle"]
    /\ held = [contacts |-> None]
    /\ todo = [t \in Commands |-> <<>>]
    /\ resolved = [t \in Commands |-> <<>>]
    /\ IdleTs
    /\ IdleDec
    /\ IdleCon
    /\ IdleDb
    /\ IdleSum
    /\ IdleStore
    /\ IdleApp

\* main.rs:33-36: get_conversations is invoked; the store gives a list
GetConversations(t) ==
    /\ pc[t] = "idle"
    /\ \E convs \in ConversationLists :
          todo' = [todo EXCEPT ![t] = ResolveTargets(convs)]
    /\ pc' = [pc EXCEPT ![t] = "get_conversations: lock"]
    /\ UNCHANGED <<held, resolved, tsVars, decVars, conVars, dbVars, sumVars,
                   storeVars, appVars>>

\* main.rs:35-36: ... or Database::open or unread_conversations fails
GetConversationsFails(t) ==
    /\ pc[t] = "idle"
    /\ pc' = [pc EXCEPT ![t] = "returned"]
    /\ UNCHANGED <<held, todo, resolved, tsVars, decVars, conVars, dbVars,
                   sumVars, storeVars, appVars>>

\* main.rs:39: state.contacts.lock()
GetConversationsLocks(t) ==
    /\ pc[t] = "get_conversations: lock"
    /\ CanLock(held.contacts)
    /\ held' = [held EXCEPT !.contacts = Some(t)]
    /\ pc' = [pc EXCEPT ![t] = "get_conversations: resolve"]
    /\ UNCHANGED <<todo, resolved, tsVars, decVars, conVars, dbVars, sumVars,
                   storeVars, appVars>>

\* main.rs:40-60: one contacts.resolve of the loop
GetConversationsResolves(t) ==
    /\ pc[t] = "get_conversations: resolve"
    /\ todo[t] # <<>>
    /\ resolved' = [resolved EXCEPT ![t] = Append(@, resolve(cache, Head(todo[t])))]
    /\ todo' = [todo EXCEPT ![t] = Tail(@)]
    /\ UNCHANGED <<pc, held, tsVars, decVars, conVars, dbVars, sumVars,
                   storeVars, appVars>>

\* main.rs:63-64: Ok(convs); the guard is dropped
GetConversationsReturns(t) ==
    /\ pc[t] = "get_conversations: resolve"
    /\ todo[t] = <<>>
    /\ held' = [held EXCEPT !.contacts = None]
    /\ pc' = [pc EXCEPT ![t] = "returned"]
    /\ UNCHANGED <<todo, resolved, tsVars, decVars, conVars, dbVars, sumVars,
                   storeVars, appVars>>

\* main.rs:225: load_contacts is invoked
LoadContacts(t) ==
    /\ pc[t] = "idle"
    /\ pc' = [pc EXCEPT ![t] = "load_contacts: lock"]
    /\ UNCHANGED <<held, todo, resolved, tsVars, decVars, conVars, dbVars,
                   sumVars, storeVars, appVars>>

\* main.rs:226: state.contacts.lock(); contacts.rs:46-71: the address book
\* is found and read, or load_macos_contacts fails and adds nothing
LoadContactsLocks(t) ==
    /\ pc[t] = "load_contacts: lock"
    /\ CanLock(held.contacts)
    /\ held' = [held EXCEPT !.contacts = Some(t)]
    /\ \/ \E book \in AddressBooks :
             todo' = [todo EXCEPT ![t] = load_from_addressbook_db(book)]
       \/ todo' = [todo EXCEPT ![t] = <<>>]
    /\ pc' = [pc EXCEPT ![t] = "load_contacts: add"]
    /\ UNCHANGED <<resolved, tsVars, decVars, conVars, dbVars, sumVars,
                   storeVars, appVars>>

\* contacts.rs:101-104, 130-135: one self.add of the loops
LoadContactsAdds(t) ==
    /\ pc[t] = "load_contacts: add"
    /\ todo[t] # <<>>
    /\ cache' = add(cache, Head(todo[t])[1], Head(todo[t])[2])
    /\ todo' = [todo EXCEPT ![t] = Tail(@)]
    /\ UNCHANGED <<pc, held, resolved, call, tsVars, decVars, dbVars,
                   sumVars, storeVars, appVars>>

\* main.rs:227-228: the count or the error is returned; the guard is dropped
LoadContactsReturns(t) ==
    /\ pc[t] = "load_contacts: add"
    /\ todo[t] = <<>>
    /\ held' = [held EXCEPT !.contacts = None]
    /\ pc' = [pc EXCEPT ![t] = "returned"]
    /\ UNCHANGED <<todo, resolved, tsVars, decVars, conVars, dbVars, sumVars,
                   storeVars, appVars>>

NextCmd ==
    \E t \in Commands :
        \/ GetConversations(t)
        \/ GetConversationsFails(t)
        \/ GetConversationsLocks(t)
        \/ GetConversationsResolves(t)
        \/ GetConversationsReturns(t)
        \/ LoadContacts(t)
        \/ LoadContactsLocks(t)
        \/ LoadContactsAdds(t)
        \/ LoadContactsReturns(t)

SpecCmd == InitCmd /\ [][NextCmd]_vars

\* the commands that are reading the cache, and those populating it
Reading == { t \in DOMAIN pc : pc[t] = "get_conversations: resolve" }
Populating == { t \in DOMAIN pc : pc[t] = "load_contacts: add" }

\* C18: at most one command is reading or populating the shared contact
\* cache at a time, and it is the one that holds the mutex: a population
\* overlaps neither a read nor another population.
C18_CacheHeldByOneCommand ==
    /\ Cardinality(Reading \cup Populating) <= 1
    /\ \A t \in Reading \cup Populating : held.contacts = Some(t)

\* a load_contacts is part way through its adds while a get_conversations
\* waits for the mutex with identifiers to resolve
C18_Witness ==
    \E t, u \in DOMAIN pc :
        /\ pc[t] = "load_contacts: add"
        /\ todo[t] # <<>>
        /\ cache # <<>>
        /\ pc[u] = "get_conversations: lock"
        /\ todo[u] # <<>>

(***************************************************************************)
(* db.rs: Database::open and unread_conversations                          *)
(***************************************************************************)

\* "unable to open" (db.rs:44)
UNABLE_TO_OPEN == <<117, 110, 97, 98, 108, 101, 32, 116, 111, 32, 111, 112, 101, 110>>

\* SQLite's text for SQLITE_CANTOPEN, "unable to open database file", and for
\* SQLITE_NOMEM, "out of memory"
CANTOPEN_TEXT ==
    UNABLE_TO_OPEN \o <<32, 100, 97, 116, 97, 98, 97, 115, 101, 32, 102, 105, 108, 101>>
NOMEM_TEXT == <<111, 117, 116, 32, 111, 102, 32, 109, 101, 109, 111, 114, 121>>

\* str::contains
ContainsStr(text, pattern) ==
    \E p \in 0 .. (Len(text) - Len(pattern)) :
        Slice(text, p, p + Len(pattern)) = pattern

\* db.rs:35-52; exists is what path.exists() answers, open_error what
\* Connection::open_with_flags fails with, if it fails
open(path) ==
    IF ~path.exists THEN Err("NotFound")
    ELSE IF path.open_error = None THEN Ok("conn")
    ELSE IF ContainsStr(path.open_error[1], UNABLE_TO_OPEN)
        THEN Err("PermissionDenied")
        ELSE Err("Sqlite")

\* the queries of one chat that the store fails
FailingFor(failing, chat_id) ==
    { kind \in {"participants", "messages", "attachments", "reactions"} :
         <<kind, chat_id>> \in failing }

\* db.rs:109-126, its error if it has one
load_participants(chat, failing) ==
    IF chat.style # 43 THEN Ok(<<>>)
    ELSE IF "participants" \in failing THEN Err("Sqlite")
    ELSE Ok(chat.participants)

\* db.rs:101-104, from the n-th chat on: the conversations, or the first error
RECURSIVE LoadEach(_, _, _, _, _, _)
LoadEach(rows, n, annotations, ords, now, failing) ==
    IF n > Len(rows) THEN Ok(<<>>)
    ELSE LET chat     == rows[n]
             mine     == FailingFor(failing, chat.chat_id)
             people   == load_participants(chat, mine)
             messages == load_messages(Fetched(chat.message_rows, ords[n]),
                                       annotations, now, mine)
             rest     == LoadEach(rows, n + 1, annotations, ords, now, failing)
         IN  IF ~people.ok THEN people
             ELSE IF ~messages.ok THEN messages
             ELSE IF ~rest.ok THEN rest
             ELSE Ok(<< [chat_id |-> chat.chat_id, style |-> chat.style,
                         participants |-> people.value,
                         messages |-> messages.value] >> \o rest.value)

\* db.rs:55-107
unread_conversations(rows, annotations, ords, now, failing) ==
    IF <<"conversations", 0>> \in failing THEN Err("Sqlite")
    ELSE LoadEach(rows, 1, annotations, ords, now, failing)

\* The most chats with unread messages.
MaxChats == 2

\* What the path may be: there and readable; not there; there, the file
\* closed to this user (SQLITE_CANTOPEN); in a directory closed to this user,
\* so that its metadata cannot be read and exists() answers false; there, but
\* the process is out of file descriptors (SQLITE_CANTOPEN); there, but
\* SQLite is out of memory (SQLITE_NOMEM).
PathStates ==
    { [exists |-> TRUE, cause |-> "none", open_error |-> None],
      [exists |-> FALSE, cause |-> "missing", open_error |-> None],
      [exists |-> TRUE, cause |-> "access", open_error |-> Some(CANTOPEN_TEXT)],
      [exists |-> FALSE, cause |-> "access", open_error |-> Some(CANTOPEN_TEXT)],
      [exists |-> TRUE, cause |-> "other", open_error |-> Some(CANTOPEN_TEXT)],
      [exists |-> TRUE, cause |-> "other", open_error |-> Some(NOMEM_TEXT)] }

\* The message rows of a chat: one row with text; one with text and a named
\* attachment; one with neither, which is dropped.
ChatMessageKinds ==
    { PlainKind,
      <<SrcPlain, DateSeconds, [has_attachments |-> TRUE, attachments |-> <<FileRow>>]>>,
      NullKind }

\* the i-th chat: its one message row has rowid i and guid GuidOf(i)
ChatRow(i, style, kind) ==
    [chat_id |-> i, style |-> style, participants |-> << <<FIVE>> >>,
     message_rows |-> << MessageRow(i, kind) >>]

ChatTables ==
    UNION { { [i \in 1 .. k |-> ChatRow(i, sk[i][1], sk[i][2])] :
                sk \in [1 .. k -> {43, 45} \X ChatMessageKinds] } : k \in 0 .. MaxChats }

\* no query fails, or one does: the chat query, or a query of one chat
FaultSets ==
    { {}, { <<"conversations", 0>> } }
    \cup { { <<kind, i>> } :
             kind \in {"participants", "messages", "attachments", "reactions"},
             i \in 1 .. MaxChats }

InitStore ==
    /\ path_state \in PathStates
    /\ chats \in ChatTables
    /\ faults \in FaultSets
    /\ annotation_rows = << AnnotationRow(<<112, 58, 48, 47>> \o GuidOf(1), 2000) >>
    /\ opened = None
    /\ conversations = None
    /\ message_rows = <<>>
    /\ conv_messages = None
    /\ returned = None
    /\ IdleTs
    /\ IdleDec
    /\ IdleCon
    /\ IdleSum
    /\ IdleCmd
    /\ IdleApp

\* Database::open(&path)
Open ==
    /\ opened = None
    /\ opened' = Some(open(path_state))
    /\ UNCHANGED <<path_state, chats, conversations, tsVars, decVars, conVars,
                   dbVars, sumVars, cmdVars, appVars>>

\* db.unread_conversations()
UnreadConversations ==
    /\ opened # None
    /\ opened[1].ok
    /\ conversations = None
    /\ \E now \in ClockReadings :
       \E ords \in { f \in [1 .. Len(chats) -> UNION { FetchOrders(chats[i].message_rows) :
                                                       i \in 1 .. Len(chats) }] :
                       \A i \in 1 .. Len(chats) : f[i] \in FetchOrders(chats[i].message_rows) } :
          conversations' =
              Some(unread_conversations(chats, annotation_rows, ords, now, faults))
    /\ UNCHANGED <<path_state, chats, opened, tsVars, decVars, conVars, dbVars,
                   sumVars, cmdVars, appVars>>

NextStore == Open \/ UnreadConversations

SpecStore == InitStore /\ [][NextStore]_vars

\* the failing query is one unread_conversations runs: the chat query; the
\* participant query of a group chat; the message query of a chat; the
\* attachment query of a chat with a flagged row; the reaction query of a
\* chat that has a row with text
Runs(q) ==
    \/ q = <<"conversations", 0>>
    \/ \E i \in 1 .. Len(chats) :
          \/ q = <<"participants", i>> /\ chats[i].style = 43
          \/ q = <<"messages", i>>
          \/ q = <<"attachments", i>> /\ chats[i].message_rows[1].has_attachments
          \/ q = <<"reactions", i>> /\ chats[i].message_rows[1].text # None

\* the second half of C14: a failure of a query that unread_conversations
\* runs makes the call return that error; with no such failure it returns a
\* conversation for every chat
QueryFailuresAreTerminal ==
    conversations # None =>
        IF \E q \in faults : Runs(q)
        THEN conversations[1] = Err("Sqlite")
        ELSE /\ conversations[1].ok
             /\ Len(conversations[1].value) = Len(chats)

MaxChatId == 3
ChatIds == 1 .. MaxChatId

\* HashMap::remove and HashMap::insert, HashSet membership toggled by the
\* handlers below; a map is a function whose domain is its set of keys
HashMapRemove(map, key) == [k \in DOMAIN map \ {key} |-> map[k]]
HashMapInsert(map, key, value) ==
    [k \in DOMAIN map \cup {key} |-> IF k = key THEN value ELSE map[k]]

\* AppState::default()
AppStateDefault ==
    [drafts |-> <<>>, committed |-> <<>>, later |-> {}, ignored |-> {}]

\* a handler's outcome: the state it leaves and the value it returns
Outcome(state, result, calls) ==
    [state |-> state, result |-> result, calls |-> calls]

\* commit_message without the removal from drafts
commit_message_keeps_draft(state, chat_id, text) ==
    IF Trim(text) = <<>>
    THEN Outcome(state, Err("No text provided"), <<>>)
    ELSE Outcome([state EXCEPT
                     !.committed = HashMapInsert(state.committed, chat_id, text)],
                 Ok("committed"), <<>>)

\* save_draft(chat_id, text, state)
save_draft(state, chat_id, text) ==
    LET committed == HashMapRemove(state.committed, chat_id)
        blank == Trim(text) = <<>>
        drafts == IF blank
                  THEN HashMapRemove(state.drafts, chat_id)
                  ELSE HashMapInsert(state.drafts, chat_id, text)
    IN  Outcome([state EXCEPT !.drafts = drafts, !.committed = committed],
                Ok(IF blank THEN "empty" ELSE "draft"), <<>>)

\* commit_message(chat_id, text, state)
commit_message(state, chat_id, text) ==
    IF Trim(text) = <<>>
    THEN Outcome(state, Err("No text provided"), <<>>)
    ELSE Outcome([state EXCEPT
                     !.drafts = HashMapRemove(state.drafts, chat_id),
                     !.committed = HashMapInsert(state.committed, chat_id, text)],
                 Ok("committed"), <<>>)

\* toggle_later(chat_id, state)
toggle_later(state, chat_id) ==
    IF chat_id \in state.later
    THEN Outcome([state EXCEPT !.later = state.later \ {chat_id}],
                 Ok(FALSE), <<>>)
    ELSE Outcome([state EXCEPT
                     !.later = state.later \cup {chat_id},
                     !.drafts = HashMapRemove(state.drafts, chat_id),
                     !.committed = HashMapRemove(state.committed, chat_id)],
                 Ok(TRUE), <<>>)

\* toggle_ignore(chat_identifier, state)
toggle_ignore(state, chat_identifier) ==
    IF chat_identifier \in state.ignored
    THEN Outcome([state EXCEPT !.ignored = state.ignored \ {chat_identifier}],
                 Ok(FALSE), <<>>)
    ELSE Outcome([state EXCEPT !.ignored = state.ignored \cup {chat_identifier}],
                 Ok(TRUE), <<>>)

\* get_state(state): a snapshot of the four collections
get_state(state) == Outcome(state, Ok("snapshot"), <<>>)

\* send_message(chat_identifier, text, is_group): the script's exit status
\* decides the result
send_message(chat_identifier, text, is_group, script_ok) ==
    IF script_ok THEN Ok(<<>>) ELSE Err("ScriptError")

\* the calls send_all makes for one conversation
SendCall(conv, text, success) ==
    [op |-> "send_message", chat_id |-> conv.chat_id,
     chat_identifier |-> conv.chat_identifier, success |-> success]
MarkCall(conv) ==
    [op |-> "mark_as_read", chat_id |-> conv.chat_id,
     chat_identifier |-> conv.chat_identifier, success |-> TRUE]

\* send_all's loop body with mark_as_read called whatever the send returned
mark_whatever_the_send_returned(conv, text, script_ok) ==
    LET success == send_message(conv.chat_identifier, text, conv.style = 43,
                                script_ok).ok
    IN  <<SendCall(conv, text, success), MarkCall(conv)>>

\* send_all's loop body for a chat id found in conv_map
send_one(conv, text, script_ok) ==
    LET success == send_message(conv.chat_identifier, text, conv.style = 43,
                                script_ok).ok
    IN  <<SendCall(conv, text, success)>>
        \o (IF success THEN <<MarkCall(conv)>> ELSE <<>>)

\* for (chat_id, text) in to_send { if let Some(conv) = conv_map.get(..) }
RECURSIVE SendEach(_, _, _, _)
SendEach(to_send, committed, conv_map, script_ok) ==
    IF to_send = <<>> THEN <<>>
    ELSE LET chat_id == to_send[1]
         IN  (IF chat_id \in DOMAIN conv_map
              THEN send_one(conv_map[chat_id], committed[chat_id],
                            script_ok[chat_id])
              ELSE <<>>)
             \o SendEach(Tail(to_send), committed, conv_map, script_ok)

\* send_all(state): unread is what Database::open and unread_conversations
\* gave, to_send the order in which drain yields the committed entries
send_all(state, unread, to_send, script_ok) ==
    IF ~unread.ok
    THEN Outcome(state, Err(unread.error), <<>>)
    ELSE LET convs == unread.value
             conv_map == [id \in { convs[i].chat_id : i \in 1 .. Len(convs) } |->
                             CHOOSE c \in { convs[i] : i \in 1 .. Len(convs) } :
                                 c.chat_id = id]
         IN  Outcome([state EXCEPT !.committed = <<>>], Ok("results"),
                     SendEach(to_send, state.committed, conv_map, script_ok))

\* the texts a command is given: blank ones and one kept with its padding
Texts == { <<>>, <<32>>, <<32, 97>> }

\* the unread conversations a send_all can find: any set of chats, each
\* with its own identifier or all sharing one, chat 2 being a group
RECURSIVE Ascending(_)
Ascending(ids) ==
    IF ids = {} THEN <<>>
    ELSE LET least == CHOOSE i \in ids : \A j \in ids : i <= j
         IN  <<least>> \o Ascending(ids \ {least})

UnreadList(ids, shared) ==
    [i \in 1 .. Len(Ascending(ids)) |->
        [chat_id |-> Ascending(ids)[i],
         chat_identifier |-> IF shared THEN <<49>> ELSE <<48 + Ascending(ids)[i]>>,
         style |-> IF Ascending(ids)[i] = 2 THEN 43 ELSE 45]]

UnreadLists ==
    { UnreadList(ids, FALSE) : ids \in SUBSET ChatIds }
    \cup { UnreadList(ids, TRUE) :
             ids \in { some \in SUBSET ChatIds : Cardinality(some) > 1 } }

UnreadResults ==
    { Err("NotFound"), Err("Sqlite") } \cup { Ok(convs) : convs \in UnreadLists }

\* the orders in which drain can yield the keys of a map
DrainOrders(map) ==
    { order \in [1 .. Cardinality(DOMAIN map) -> DOMAIN map] :
        \A i, j \in DOMAIN order : i # j => order[i] # order[j] }

\* what the last command did besides changing AppState
Did(command, chat_id, outcome, unread, to_send) ==
    [command |-> command, chat_id |-> chat_id, ok |-> outcome.result.ok,
     unread |-> unread, to_send |-> to_send, calls |-> outcome.calls]

InitApp ==
    /\ app_state = AppStateDefault
    /\ events = Did("main", 0, Outcome(AppStateDefault, Ok(<<>>), <<>>), <<>>, <<>>)
    /\ frame = <<>>
    /\ IdleTs /\ IdleDec /\ IdleCon /\ IdleDb /\ IdleSum /\ IdleCmd /\ IdleStore

Done(command, chat_id, outcome, unread, to_send) ==
    /\ app_state' = outcome.state
    /\ events' = Did(command, chat_id, outcome, unread, to_send)
    /\ UNCHANGED <<frame, tsVars, decVars, conVars, dbVars, sumVars, cmdVars,
                   storeVars>>

SaveDraft ==
    \E chat_id \in ChatIds, text \in Texts :
        Done("save_draft", chat_id, save_draft(app_state, chat_id, text),
             <<>>, <<>>)

CommitMessage ==
    \E chat_id \in ChatIds, text \in Texts :
        Done("commit_message", chat_id,
             commit_message(app_state, chat_id, text), <<>>, <<>>)

ToggleLater ==
    \E chat_id \in ChatIds :
        Done("toggle_later", chat_id, toggle_later(app_state, chat_id),
             <<>>, <<>>)

SendAll ==
    \E unread \in UnreadResults,
       to_send \in DrainOrders(app_state.committed),
       script_ok \in [DOMAIN app_state.committed -> BOOLEAN] :
        Done("send_all", 0, send_all(app_state, unread, to_send, script_ok),
             IF unread.ok THEN unread.value ELSE <<>>,
             IF unread.ok THEN to_send ELSE <<>>)

NextApp == SaveDraft \/ CommitMessage \/ ToggleLater \/ SendAll

SpecApp == InitApp /\ [][NextApp]_vars

\* C21: after any sequence of save_draft, commit_message, toggle_later and
\* send_all, no chat id has an entry in both the drafts map and the
\* committed map.
C21_NoChatBothDraftAndCommitted ==
    DOMAIN app_state.drafts \cap DOMAIN app_state.committed = {}

\* C21's case: commit_message has just committed a chat while another chat
\* holds a draft
C21_Witness ==
    /\ events.command = "commit_message" /\ events.ok
    /\ events.chat_id \in DOMAIN app_state.committed
    /\ DOMAIN app_state.drafts # {}

\* C23: after any sequence of save_draft, commit_message and toggle_later, a
\* chat id that is in the later set has no entry in drafts and no entry in
\* committed.
C23_LaterChatHasNoDraftNorCommitted ==
    app_state.later \cap
        (DOMAIN app_state.drafts \cup DOMAIN app_state.committed) = {}

\* the calls of the last send_all, and what they were made for
SendCalls == IF events.command = "send_all" THEN events.calls ELSE <<>>
Unread == { events.unread[i].chat_id : i \in DOMAIN events.unread }
SentTo(k) == SendCalls[k].op = "send_message"
MarkedRead(k) == SendCalls[k].op = "mark_as_read"

\* C24: within send_all, mark_as_read is called for a conversation only
\* after send_message for that conversation has returned success, never for
\* a conversation whose send failed and never for a committed chat id that
\* is not among the unread conversations.
C24_MarkReadOnlyAfterSuccessfulSend ==
    \A k \in DOMAIN SendCalls :
        MarkedRead(k) =>
            /\ \E j \in 1 .. k - 1 :
                  /\ SentTo(j)
                  /\ SendCalls[j].chat_id = SendCalls[k].chat_id
                  /\ SendCalls[j].success
            /\ \A j \in DOMAIN SendCalls :
                  SentTo(j) /\ SendCalls[j].chat_id = SendCalls[k].chat_id
                      => SendCalls[j].success
            /\ SendCalls[k].chat_id \in Unread

\* C24's case: one send_all that marked a conversation read, had a send
\* fail and drained a chat id that is not among the unread conversations
C24_Witness ==
    /\ \E k \in DOMAIN SendCalls : MarkedRead(k)
    /\ \E k \in DOMAIN SendCalls : SentTo(k) /\ ~SendCalls[k].success
    /\ \E i \in DOMAIN events.to_send : events.to_send[i] \notin Unread

\* ---------------------------------------------------------------------
\* main.rs: the same commands on threads of their own, taking the mutexes
\* of AppState one after the other
\* ---------------------------------------------------------------------

\* a command as invoked: its name, its arguments, what the store answers a
\* send_all, and the locks its body has yet to take
Frame(command, chat_id, text, chat_identifier, unread, wants) ==
    [command |-> command, chat_id |-> chat_id, text |-> text,
     chat_identifier |-> chat_identifier, unread |-> unread, wants |-> wants]

NoFrame == Frame("none", 0, <<>>, <<>>, Err(""), <<>>)

\* the state.X.lock() calls of each handler, in the order of its source;
\* commit_message returns before them on a blank text, send_all on a store
\* that does not open or answer
LockOrder(command, text, unread) ==
    CASE command = "save_draft" -> <<"drafts", "committed">>
      [] command = "commit_message" ->
            IF Trim(text) = <<>> THEN <<>> ELSE <<"drafts", "committed">>
      [] command = "toggle_later" -> <<"later", "drafts", "committed">>
      [] command = "toggle_ignore" -> <<"ignored">>
      [] command = "send_all" -> IF unread.ok THEN <<"committed">> ELSE <<>>
      [] command = "get_state" -> <<"drafts", "committed", "later", "ignored">>

Invocation(command, chat_id, text, chat_identifier, unread) ==
    Frame(command, chat_id, text, chat_identifier, unread,
          LockOrder(command, text, unread))

Invocations ==
    { Invocation("save_draft", chat_id, text, <<>>, Err("")) :
        chat_id \in ChatIds, text \in Texts }
    \cup { Invocation("commit_message", chat_id, text, <<>>, Err("")) :
             chat_id \in ChatIds, text \in Texts }
    \cup { Invocation("toggle_later", chat_id, <<>>, <<>>, Err("")) :
             chat_id \in ChatIds }
    \cup { Invocation("toggle_ignore", 0, <<>>, <<48 + chat_id>>, Err("")) :
             chat_id \in ChatIds }
    \cup { Invocation("send_all", 0, <<>>, <<>>, unread) :
             unread \in UnreadResults }
    \cup { Invocation("get_state", 0, <<>>, <<>>, Err("")) }

\* what the body of a command does once it holds its locks
Body(f, state, to_send, script_ok) ==
    CASE f.command = "save_draft" -> save_draft(state, f.chat_id, f.text)
      [] f.command = "commit_message" -> commit_message(state, f.chat_id, f.text)
      [] f.command = "toggle_later" -> toggle_later(state, f.chat_id)
      [] f.command = "toggle_ignore" -> toggle_ignore(state, f.chat_identifier)
      [] f.command = "send_all" -> send_all(state, f.unread, to_send, script_ok)
      [] f.command = "get_state" -> get_state(state)

InitLocks ==
    /\ pc = [t \in Commands |-> "idle"]
    /\ held = [drafts |-> None, committed |-> None, later |-> None,
               ignored |-> None]
    /\ todo = [t \in Commands |-> <<>>]
    /\ resolved = [t \in Commands |-> <<>>]
    /\ app_state = AppStateDefault
    /\ events = Did("main", 0, Outcome(AppStateDefault, Ok(<<>>), <<>>), <<>>, <<>>)
    /\ frame = [t \in Commands |-> NoFrame]
    /\ IdleTs /\ IdleDec /\ IdleCon /\ IdleDb /\ IdleSum /\ IdleStore

\* the webview invokes a command
Invoke(t) ==
    /\ pc[t] = "idle"
    /\ \E f \in Invocations : frame' = [frame EXCEPT ![t] = f]
    /\ pc' = [pc EXCEPT ![t] = "called"]
    /\ UNCHANGED <<held, todo, resolved, app_state, events, tsVars, decVars,
                   conVars, dbVars, sumVars, storeVars>>

\* state.X.lock(): the command takes the next mutex of its order when no
\* other command holds it
Acquire(t) ==
    /\ pc[t] = "called"
    /\ frame[t].wants # <<>>
    /\ CanLock(held[frame[t].wants[1]])
    /\ held' = [held EXCEPT ![frame[t].wants[1]] = Some(t)]
    /\ frame' = [frame EXCEPT ![t].wants = Tail(frame[t].wants)]
    /\ UNCHANGED <<pc, todo, resolved, app_state, events, tsVars, decVars,
                   conVars, dbVars, sumVars, storeVars>>

\* the body runs under the guards, which are dropped when it returns
Finish(t) ==
    /\ pc[t] = "called"
    /\ frame[t].wants = <<>>
    /\ \E to_send \in DrainOrders(app_state.committed),
          script_ok \in [DOMAIN app_state.committed -> BOOLEAN] :
          LET outcome == Body(frame[t], app_state, to_send, script_ok)
              sending == frame[t].command = "send_all" /\ frame[t].unread.ok
          IN  /\ app_state' = outcome.state
              /\ events' = Did(frame[t].command, frame[t].chat_id, outcome,
                               IF sending THEN frame[t].unread.value ELSE <<>>,
                               IF sending THEN to_send ELSE <<>>)
    /\ held' = [l \in DOMAIN held |-> IF held[l] = Some(t) THEN None ELSE held[l]]
    /\ pc' = [pc EXCEPT ![t] = "returned"]
    /\ UNCHANGED <<frame, todo, resolved, tsVars, decVars, conVars, dbVars,
                   sumVars, storeVars>>

NextLocks == \E t \in Commands : Invoke(t) \/ Acquire(t) \/ Finish(t)

SpecLocks == InitLocks /\ [][NextLocks]_vars

\* command t is at a lock() whose mutex command u holds
WaitsOn(t, u) ==
    /\ pc[t] = "called"
    /\ frame[t].wants # <<>>
    /\ held[frame[t].wants[1]] = Some(u)

\* C22: when save_draft, commit_message, toggle_later, send_all and
\* get_state run on threads of their own, no interleaving of their lock
\* acquisitions leaves two commands each holding a lock the other waits for.
C22_NoTwoCommandsWaitOnEachOther ==
    \A t, u \in Commands : t # u => ~(WaitsOn(t, u) /\ WaitsOn(u, t))

====
